---- MODULE Spec2Model ----
(***************************************************************************)
(* Model of the LUGX analytics service's event ingestion path:             *)
(*   services/analytics-service/app-clickhouse.js  (POST /api/analytics/   *)
(*   events, initializeClickHouse, the error-handling middleware)          *)
(*   services/analytics-service/clickhouse.js      (insertData)            *)
(*   database/clickhouse/init/01-create-schema.sql (MergeTree tables)      *)
(*                                                                         *)
(* A JavaScript value that may be absent is modelled by a record that      *)
(* lacks the field: "event_id" \in DOMAIN e is JavaScript's                *)
(* e.event_id !== undefined.  Strings the code inspects (timestamps) are   *)
(* sequences of characters; a request body is what express.json() leaves   *)
(* in req.body, or a parse error.                                          *)
(***************************************************************************)
EXTENDS Integers, Sequences, FiniteSets, TLC

\* ------------------------------------------------------------------ bounds

\* Number of HTTP requests the model lets clients send.
MaxReqs == 2

\* Longest events array a client sends.
MaxEvents == 2

ReqIds == 1..MaxReqs

\* Longest array a caller of batchInsert passes, the default-sized ones aside.
MaxData == 3

\* Passes of a loop that never ends that the model follows.
MaxIters == 3

\* Number of GET requests the model lets clients send.
MaxGets == 1

GetIds == 1..MaxGets

\* ------------------------------------------------------- the store's tables

\* The four tables the handler inserts into (schema 2, 3, 5 and 6).
Tables == <<"page_views", "game_interactions", "search_events", "performance_metrics">>

TableSet == {Tables[i] : i \in 1..Len(Tables)}

\* ------------------------------------------------------------ client inputs

\* new Date().toISOString(): "<date>T<time>.<millis>Z", one character class
\* per element.
NowISO == <<"d", "T", "t", ".", "m", "Z">>

\* A timestamp already in ClickHouse's "YYYY-MM-DD HH:MM:SS" form.
PlainTs == <<"D", " ", "t">>

StringTs(chars) == [type |-> "string", chars |-> chars]

\* A JSON number sent as timestamp (epoch milliseconds).
NumberTs == [type |-> "number", value |-> 1700]

\* The events clients send.  Event ids 1..9 are chosen by clients; sending
\* pvA twice is a re-delivery of event_id 1.
pvA == [event_type |-> "page_view", event_id |-> 1, timestamp |-> StringTs(NowISO)]

pvNumTs == [event_type |-> "page_view", timestamp |-> NumberTs]

giA == [event_type |-> "game_interaction", event_id |-> 2, game_id |-> 7,
        timestamp |-> StringTs(PlainTs)]

giNoGame == [event_type |-> "game_interaction", event_id |-> 3]

\* No event_id and no timestamp, like the event deploy.sh posts.
searchA == [event_type |-> "search"]

perfA == [event_type |-> "performance", event_id |-> 5]

bogus == [event_type |-> "bogus", event_id |-> 6]

noKind == [event_id |-> 8]

EventPool == {pvA, pvNumTs, giA, giNoGame, searchA, perfA, bogus, noKind}

RECURSIVE SeqsUpTo(_, _)
\* All sequences over S of length 0..n.
SeqsUpTo(S, n) ==
    IF n = 0 THEN {<<>>}
    ELSE LET shorter == SeqsUpTo(S, n - 1)
         IN shorter \cup {Append(s, x) : s \in {q \in shorter : Len(q) = n - 1}, x \in S}

\* What the client put on the wire, as express.json() sees it.
Unparsable == [parse |-> "error"]

MissingEventsKey == [parse |-> "ok", json |-> [other |-> 1]]

EventsNotArray == [parse |-> "ok", json |-> [events |-> [isArray |-> FALSE, items |-> <<>>]]]

EventsBody(items) == [parse |-> "ok", json |-> [events |-> [isArray |-> TRUE, items |-> items]]]

\* What LugxAnalytics.sendEvent posts: one event object, not wrapped in an
\* events array.
TrackerEvent ==
    [parse |-> "ok",
     json |-> [eventType |-> "page_view", userId |-> "user_1", gameId |-> "null",
               sessionId |-> "sess_1", metadata |-> [page |-> "/"]]]

Bodies ==
    {Unparsable, MissingEventsKey, EventsNotArray, TrackerEvent}
        \cup {EventsBody(s) : s \in SeqsUpTo(EventPool, MaxEvents)}

\* ------------------------------------------------- String.prototype helpers

\* s.includes(c)
Includes(s, c) == \E i \in 1..Len(s) : s[i] = c

\* Index of the first c in s, or 0.
IndexOf(s, c) == IF Includes(s, c) THEN CHOOSE i \in 1..Len(s) : s[i] = c /\ \A j \in 1..(i - 1) : s[j] # c ELSE 0

\* s.replace(c, repl): only the first occurrence is replaced.
ReplaceFirst(s, c, repl) ==
    LET i == IndexOf(s, c)
    IN IF i = 0 THEN s ELSE SubSeq(s, 1, i - 1) \o repl \o SubSeq(s, i + 1, Len(s))

\* s.split(c)[0]
SplitHead(s, c) ==
    LET i == IndexOf(s, c)
    IN IF i = 0 THEN s ELSE SubSeq(s, 1, i - 1)

\* ------------------------------------------------ events.forEach (334..402)

\* uuidv4(): the n-th generated id; never equal to a client's id.
uuidv4(n) == 100 + n

\* FormatTimestamp guarded by a type test: what is not a string is passed on
\* as the current time instead of throwing.
FormatTimestamp_Tolerant(event) ==
    LET ts == IF "timestamp" \in DOMAIN event /\ event.timestamp.type = "string"
              THEN event.timestamp.chars ELSE NowISO
    IN [threw |-> FALSE,
        value |-> IF Includes(ts, "T") /\ Includes(ts, "Z")
                  THEN SplitHead(ReplaceFirst(ReplaceFirst(ts, "T", <<" ">>), "Z", <<>>), ".")
                  ELSE ts]

\* Lines 336..339.  event.timestamp || new Date().toISOString(), then the
\* rewrite to "YYYY-MM-DD HH:MM:SS".  A number has no includes method: the
\* call throws a TypeError.
FormatTimestamp(event) ==
    IF "timestamp" \notin DOMAIN event
    THEN [threw |-> FALSE,
          value |-> SplitHead(ReplaceFirst(ReplaceFirst(NowISO, "T", <<" ">>), "Z", <<>>), ".")]
    ELSE IF event.timestamp.type # "string"
    THEN [threw |-> TRUE]
    ELSE LET ts == event.timestamp.chars
         IN [threw |-> FALSE,
             value |-> IF Includes(ts, "T") /\ Includes(ts, "Z")
                       THEN SplitHead(ReplaceFirst(ReplaceFirst(ts, "T", <<" ">>), "Z", <<>>), ".")
                       ELSE ts]

\* Lines 341..346.  src is not a field of the program's object: it records
\* which element of which request the row was built from.
baseEvent(event, ts, n, src) ==
    [event_id |-> IF "event_id" \in DOMAIN event THEN event.event_id ELSE uuidv4(n),
     timestamp |-> ts,
     src |-> src]

\* KindTable with a default case that treats any other kind as a page view.
KindTable_DefaultPageView(event_type) ==
    CASE event_type = "game_interaction" -> "game_interactions"
      [] event_type = "search" -> "search_events"
      [] event_type = "performance" -> "performance_metrics"
      [] OTHER -> "page_views"

\* The case labels of switch (event.event_type), lines 349, 364, 376, 388,
\* with the array each case pushes to.
KindTable(event_type) ==
    CASE event_type = "page_view" -> "page_views"
      [] event_type = "game_interaction" -> "game_interactions"
      [] event_type = "search" -> "search_events"
      [] event_type = "performance" -> "performance_metrics"
      [] OTHER -> "none"

\* The table the switch sends the event to, "none" when no case matches
\* (an absent event_type matches no case).
EventTable(event) ==
    IF "event_type" \in DOMAIN event THEN KindTable(event.event_type) ELSE "none"

\* The object pushed for the event (lines 350..399).  JSON drops a field
\* whose value is undefined, so a missing game_id is a missing field.
Row(event, base) ==
    CASE EventTable(event) = "game_interactions" ->
            IF "game_id" \in DOMAIN event
            THEN [event_id |-> base.event_id, timestamp |-> base.timestamp,
                  src |-> base.src, game_id |-> event.game_id]
            ELSE base
      [] EventTable(event) = "performance_metrics" ->
            [metric_id |-> base.event_id, timestamp |-> base.timestamp, src |-> base.src]
      [] OTHER -> base

EmptyBatches == [t \in TableSet |-> <<>>]

\* Push without its break: the row also lands in the array of the next case.
Push_FallThrough(batches, t, row) ==
    LET next == CASE t = "page_views" -> "game_interactions"
                  [] t = "game_interactions" -> "search_events"
                  [] t = "search_events" -> "performance_metrics"
                  [] OTHER -> t
    IN IF next = t THEN [batches EXCEPT ![t] = Append(@, row)]
       ELSE [batches EXCEPT ![t] = Append(@, row), ![next] = Append(@, row)]

\* xs.push(row); break;  for the array of table t.
Push(batches, t, row) == [batches EXCEPT ![t] = Append(@, row)]

\* One pass through the loop body for element i; acc holds the four arrays,
\* the number of uuids generated so far, and whether an earlier pass threw.
forEachStep(r, items, i, acc) ==
    LET event == items[i]
        ts == FormatTimestamp(event)
    IN IF ts.threw
       THEN [threw |-> TRUE, batches |-> acc.batches, uuids |-> acc.uuids]
       ELSE LET gen == "event_id" \notin DOMAIN event
                n2 == IF gen THEN acc.uuids + 1 ELSE acc.uuids
                base == baseEvent(event, ts.value, n2, [req |-> r, idx |-> i])
                t == EventTable(event)
            IN [threw |-> FALSE,
                batches |-> IF t = "none" THEN acc.batches
                            ELSE Push(acc.batches, t, Row(event, base)),
                uuids |-> n2]

RECURSIVE forEachRange(_, _, _, _, _)
\* The passes for elements lo..hi in order, started from acc: the passes
\* for the first half, then those for the second half.  A throw leaves the
\* loop at once.
forEachRange(r, items, lo, hi, acc) ==
    IF acc.threw \/ lo > hi THEN acc
    ELSE IF lo = hi THEN forEachStep(r, items, lo, acc)
    ELSE LET mid == (lo + hi) \div 2
             first == forEachRange(r, items, lo, mid, acc)
         IN forEachRange(r, items, mid + 1, hi, first)

\* The loop from element i on: batches are the four arrays so far, n the
\* number of uuids generated so far.
forEach(r, items, i, batches, n) ==
    forEachRange(r, items, i, Len(items), [threw |-> FALSE, batches |-> batches, uuids |-> n])

\* -------------------------------------------------------------------- state

VARIABLES
    phase,                \* "starting" until startServer has awaited initializeClickHouse
    clickhouseConnected,  \* app-clickhouse.js:33
    req,                  \* per request: where its handler is, its body and its locals
    res,                  \* per request: the response sent, NoResponse before that
    store,                \* the rows of each ClickHouse table, in insertion order
    uuids,                \* how many ids uuidv4() has generated
    bi,                   \* one call of clickhouse.js batchInsert: its locals and position
    sessions,             \* the rows of the user_sessions table
    get,                  \* per GET request: its route, query, position and response
    proc,                 \* the service's process: running, closing or exited
    orders,               \* the orders array of the in-memory order service
    orderRes,             \* the last response of the in-memory order service
    db,                   \* the order database: the committed rows of its tables
    tx,                   \* the POST /api/orders under way: its transaction and response
    cart,                 \* game-loader.js:230, the GameLoader's cart array
    localStorage,         \* the browser's 'lugx_cart' item
    checkout,             \* one processCheckout call: its position and the alerts shown
    tracker,              \* window.lugxAnalytics: absent, or the LugxAnalytics object
    healthy,              \* whether /api/analytics/health answers 200 with JSON
    cluster,              \* the Kubernetes namespace: Service selectors and deployments
    script                \* one run of deploy-blue-green.sh: its position and variables

\* The variables of the two order services.
orderVars == <<orders, orderRes, db, tx>>

\* The variables of the browser page and of the deployment script.
siteVars == <<cart, localStorage, checkout, tracker, healthy, cluster, script>>

\* The variables of the ingestion path.
ingestVars == <<phase, clickhouseConnected, req, res, store, uuids>>

vars == <<phase, clickhouseConnected, req, res, store, uuids, bi, sessions, get, proc, orders, orderRes, db, tx,
          cart, localStorage, checkout, tracker, healthy, cluster, script>>

NoResponse == [status |-> 0]

\* A request nobody has sent yet.
Unsent == [pc |-> "unsent"]

\* order-service/app-original.js 19..104: the orders the in-memory service
\* starts with.  orderDate is the day of July 2025.
SeededOrders ==
    <<[id |-> "order_001", customerId |-> "customer_123", status |-> "completed", orderDate |-> 25],
      [id |-> "order_002", customerId |-> "customer_456", status |-> "pending", orderDate |-> 26],
      [id |-> "order_003", customerId |-> "customer_789", status |-> "shipped", orderDate |-> 24]>>

\* No POST /api/orders of the database-backed service is under way.
Idle == [pc |-> "idle"]

\* batchInsert before anybody calls it.
NotCalled ==
    [pc |-> "idle", dataArray |-> <<>>, batchSize |-> 0, i |-> 0, batch |-> <<>>,
     totalInserted |-> 0, batchCount |-> 0, handed |-> <<>>]

\* ------------------------------------------------------------ the responses

\* Lines 312..315.
EventsRequired == [status |-> 400, success |-> FALSE, error |-> "Events array is required"]

\* Lines 321..325.
Queued(items) ==
    [status |-> 200, success |-> TRUE, message |-> "Events queued for processing",
     processed |-> Len(items)]

\* Processed with total counting only the events put in a batch.
Processed_TotalBatched(items, batches) ==
    [status |-> 200, success |-> TRUE, message |-> "Events processed successfully",
     processed |-> [total |-> Len(batches["page_views"]) + Len(batches["game_interactions"])
                                + Len(batches["search_events"])
                                + Len(batches["performance_metrics"]),
                    page_views |-> Len(batches["page_views"]),
                    game_interactions |-> Len(batches["game_interactions"]),
                    search_events |-> Len(batches["search_events"]),
                    performance_metrics |-> Len(batches["performance_metrics"])]]

\* Lines 422..432.
Processed(items, batches) ==
    [status |-> 200, success |-> TRUE, message |-> "Events processed successfully",
     processed |-> [total |-> Len(items),
                    page_views |-> Len(batches["page_views"]),
                    game_interactions |-> Len(batches["game_interactions"]),
                    search_events |-> Len(batches["search_events"]),
                    performance_metrics |-> Len(batches["performance_metrics"])]]

\* Lines 434..440.
Failed(message) ==
    [status |-> 500, success |-> FALSE, error |-> "Failed to process analytics events",
     message |-> message]

\* Lines 523..530: the error-handling middleware, which also receives the
\* error express.json() raises for a body it cannot parse.
InternalServerError ==
    [status |-> 500, success |-> FALSE, error |-> "Internal server error",
     message |-> "Something went wrong"]

\* ------------------------------------------------------------------ startup

\* localStorage.getItem('lugx_cart') is null until saveCart has run.
NoItem == [has |-> FALSE, lugx_cart |-> <<>>]

\* No processCheckout call is under way and no alert has been shown.
NotCheckingOut == [pc |-> "idle", alerts |-> <<>>, calls |-> 0]

\* part_001:414 has not run: window.lugxAnalytics is undefined.
NotLoaded ==
    [loaded |-> FALSE, serviceAvailable |-> FALSE, healthCheckCompleted |-> FALSE,
     constructing |-> FALSE, checks |-> 0, timers |-> 0, sends |-> 0, sent |-> 0]

\* deploy-blue-green.sh:92..95 and 105..108: the four Services and deployments.
ServiceNames == <<"frontend", "game-service", "order-service", "analytics-service">>

Environments == {"blue", "green"}

\* Before the first deployment: no selector names an environment (line 31
\* then yields "none" or the empty string) and no deployment exists.
EmptyNamespace ==
    [selector |-> [i \in DOMAIN ServiceNames |-> "none"],
     deployment |-> [e \in Environments |-> [i \in DOMAIN ServiceNames |-> "absent"]]]

\* The script has not been started.
NotRun ==
    [pc |-> "not run", step |-> 0, CURRENT_ENV |-> "none", TARGET_ENV |-> "none",
     status |-> 0, runs |-> 0, before |-> EmptyNamespace, passed |-> {}]

Init ==
    /\ phase = "starting"
    /\ clickhouseConnected = FALSE
    /\ req = [r \in ReqIds |-> Unsent]
    /\ res = [r \in ReqIds |-> NoResponse]
    /\ store = [t \in TableSet |-> <<>>]
    /\ uuids = 0
    /\ bi = NotCalled
    /\ sessions = <<>>
    /\ get = [q \in GetIds |-> Unsent]
    /\ proc = [pc |-> "running", before |-> {}]
    /\ orders = SeededOrders
    /\ orderRes = NoResponse
    /\ db = [started |-> FALSE, connected |-> FALSE, orders |-> <<>>, order_items |-> <<>>]
    /\ tx = Idle
    /\ cart = <<>>
    /\ localStorage = NoItem
    /\ checkout = NotCheckingOut
    /\ tracker = NotLoaded
    /\ healthy = FALSE
    /\ cluster = EmptyNamespace
    /\ script = NotRun

\* Lines 35..47 and 555..558: testConnection() answers true or false (it
\* catches its own errors); the server listens only afterwards.
initializeClickHouse ==
    /\ phase = "starting"
    /\ \E connected \in BOOLEAN : clickhouseConnected' = connected
    /\ phase' = "listening"
    /\ UNCHANGED <<req, res, store, uuids>>

\* ------------------------------------------------------ clickhouse.js 53..73

\* insertData that does not wait for its clickhouse.insert.
insertData_NoAwait(data) == "fulfilled"

\* insertData up to its await: an empty array returns at once, anything
\* else issues one clickhouse.insert and waits for it.
insertData(data) == IF Len(data) = 0 THEN "fulfilled" ELSE "pending"

\* The clickhouse.insert calls one insertData makes (line 61, no loop).
InsertCalls(data) == IF Len(data) = 0 THEN 0 ELSE 1

\* Insert into a table keyed by the id column: a row whose id the table (or
\* an earlier row of the same batch) already holds is dropped.
Insert_Dedup(tables, table, values) ==
    LET Id(row) == IF "metric_id" \in DOMAIN row THEN row.metric_id ELSE row.event_id
        First(row) == CHOOSE k \in 1..Len(values) : Id(values[k]) = Id(row)
                                /\ \A j \in 1..(k - 1) : Id(values[j]) # Id(row)
        Fresh(row) ==
            /\ \A j \in 1..Len(tables[table]) : Id(tables[table][j]) # Id(row)
            /\ values[First(row)] = row
    IN [tables EXCEPT ![table] = @ \o SelectSeq(values, Fresh)]

\* What a successful clickhouse.insert does to a MergeTree table: the rows
\* are appended; the engine has no key that would replace or drop a row.
Insert(tables, table, values) == [tables EXCEPT ![table] = @ \o values]

\* Settled with a retry: a failed call is issued again, the promise stays
\* pending.
Settled_Retry(ok) == IF ok THEN "fulfilled" ELSE "pending"

\* How insertData's promise settles when its clickhouse.insert settles:
\* line 68 returns, line 71 rethrows.
Settled(ok) == IF ok THEN "fulfilled" ELSE "rejected"

\* insertPromises with the inserts awaited one after the other: only the
\* first non-empty array's insert has been started.
insertPromises_Sequential(batches) ==
    [t \in TableSet |->
        IF Len(batches[t]) > 0
           /\ \A i \in 1..Len(Tables) :
                  Tables[i] = t => \A j \in 1..(i - 1) : Len(batches[Tables[j]]) = 0
        THEN insertData(batches[t]) ELSE "none"]

\* Lines 407..418: insertData is called for the non-empty arrays only.
insertPromises(batches) ==
    [t \in TableSet |-> IF Len(batches[t]) > 0 THEN insertData(batches[t]) ELSE "none"]

\* Promise.allSettled in place of Promise.all: fulfilled once nothing is
\* pending, whatever was rejected.
PromiseAll_AllSettled(promises) ==
    IF \A t \in TableSet : promises[t] # "pending" THEN "fulfilled" ELSE "pending"

\* Promise.all(insertPromises): rejected as soon as one promise is, fulfilled
\* once all are.
PromiseAll(promises) ==
    IF \E t \in TableSet : promises[t] = "rejected" THEN "rejected"
    ELSE IF \A t \in TableSet : promises[t] \in {"none", "fulfilled"} THEN "fulfilled"
    ELSE "pending"

\* --------------------------------------- POST /api/analytics/events 307..442

\* EventsInvalid without the length test.
EventsInvalid_AllowEmpty(json) ==
    \/ "events" \notin DOMAIN json
    \/ ~json.events.isArray

\* Line 311, on req.body: !Array.isArray(events) || events.length === 0.
EventsInvalid(json) ==
    \/ "events" \notin DOMAIN json
    \/ ~json.events.isArray
    \/ Len(json.events.items) = 0

\* The handler's locals once the loop has run: calls and failures count the
\* clickhouse.insert calls issued for each table and those that failed.
Locals(pc, body, batches, promises) ==
    [pc |-> pc, body |-> body, batches |-> batches, promises |-> promises,
     calls |-> [t \in TableSet |-> IF promises[t] = "none" THEN 0 ELSE InsertCalls(batches[t])],
     failures |-> [t \in TableSet |-> 0]]

\* The handler from the arrival of the request to its first await (or to
\* its response, when it gets that far without waiting).
PostEvents(r, body) ==
    /\ phase = "listening"
    /\ req[r] = Unsent
    /\ (r > 1 => req[r - 1] # Unsent)
    /\ UNCHANGED <<phase, clickhouseConnected>>
    /\ IF body.parse = "error"
       THEN \* express.json() fails; the handler never runs
            /\ req' = [req EXCEPT ![r] = [pc |-> "responded", body |-> body]]
            /\ res' = [res EXCEPT ![r] = InternalServerError]
            /\ UNCHANGED <<store, uuids>>
       ELSE IF EventsInvalid(body.json)
       THEN /\ req' = [req EXCEPT ![r] = [pc |-> "responded", body |-> body]]
            /\ res' = [res EXCEPT ![r] = EventsRequired]
            /\ UNCHANGED <<store, uuids>>
       ELSE IF ~clickhouseConnected
       THEN /\ req' = [req EXCEPT ![r] = [pc |-> "responded", body |-> body]]
            /\ res' = [res EXCEPT ![r] = Queued(body.json.events.items)]
            /\ UNCHANGED <<store, uuids>>
       ELSE LET items == body.json.events.items
                loop == forEach(r, items, 1, EmptyBatches, uuids)
                promises == insertPromises(loop.batches)
            IN /\ uuids' = loop.uuids
               /\ UNCHANGED store
               /\ IF loop.threw
                  THEN /\ req' = [req EXCEPT ![r] =
                                     Locals("responded", body, loop.batches,
                                            [t \in TableSet |-> "none"])]
                       /\ res' = [res EXCEPT ![r] = Failed("timestamp.includes is not a function")]
                  ELSE IF PromiseAll(promises) = "fulfilled"
                  THEN /\ req' = [req EXCEPT ![r] =
                                     Locals("responded", body, loop.batches, promises)]
                       /\ res' = [res EXCEPT ![r] = Processed(items, loop.batches)]
                  ELSE /\ req' = [req EXCEPT ![r] =
                                     Locals("awaiting", body, loop.batches, promises)]
                       /\ UNCHANGED res

\* One clickhouse.insert of request r settles, and with it the insertData
\* promise; when that settles Promise.all the handler resumes at once and
\* answers (the continuations run before any other callback).
InsertSettles(r, t, ok) ==
    /\ req[r] # Unsent
    /\ "promises" \in DOMAIN req[r]
    /\ req[r].promises[t] = "pending"
    /\ LET promises == [req[r].promises EXCEPT ![t] = Settled(ok)]
           all == PromiseAll(promises)
           answers == req[r].pc = "awaiting" /\ all # "pending"
       IN /\ store' = IF ok THEN Insert(store, t, req[r].batches[t]) ELSE store
          /\ req' = [req EXCEPT ![r].promises = promises,
                                ![r].failures[t] = IF ok THEN @ ELSE @ + 1,
                                ![r].pc = IF answers THEN "responded" ELSE @]
          /\ res' = IF ~answers THEN res
                    ELSE IF all = "fulfilled"
                    THEN [res EXCEPT ![r] =
                             Processed(req[r].body.json.events.items, req[r].batches)]
                    ELSE [res EXCEPT ![r] = Failed("insert failed")]
    /\ UNCHANGED <<phase, clickhouseConnected, uuids>>

\* Everything outside the ingestion path.
others == <<bi, sessions, get, proc, orderVars, siteVars>>

Next ==
    \/ initializeClickHouse /\ UNCHANGED others
    \/ \E r \in ReqIds, body \in Bodies :
          PostEvents(r, body) /\ UNCHANGED others
    \/ \E r \in ReqIds, t \in TableSet, ok \in BOOLEAN :
          InsertSettles(r, t, ok) /\ UNCHANGED others

Spec == Init /\ [][Next]_vars

\* ------------------------------------------- clickhouse.js batchInsert 76..103

\* Array.prototype.slice with its end one too far.
Slice_Inclusive(arr, start, end) ==
    LET len == Len(arr)
        k == IF start < 0 THEN (IF len + start > 0 THEN len + start ELSE 0)
             ELSE (IF start < len THEN start ELSE len)
        final == IF end < 0 THEN (IF len + end > 0 THEN len + end ELSE 0)
                 ELSE (IF end < len THEN end + 1 ELSE len)
    IN IF k < final THEN SubSeq(arr, k + 1, final) ELSE <<>>

\* Array.prototype.slice(start, end) on 0-based indexes: a negative index
\* counts from the end, both are clamped to 0..length, and the result is
\* empty when the start is not before the end.
Slice(arr, start, end) ==
    LET len == Len(arr)
        k == IF start < 0 THEN (IF len + start > 0 THEN len + start ELSE 0)
             ELSE (IF start < len THEN start ELSE len)
        final == IF end < 0 THEN (IF len + end > 0 THEN len + end ELSE 0)
                 ELSE (IF end < len THEN end ELSE len)
    IN IF k < final THEN SubSeq(arr, k + 1, final) ELSE <<>>

\* The default of the batchSize parameter (line 76).
DefaultBatchSize == 1000

\* The calls the model makes: <<length of dataArray, batchSize>>.  Short
\* arrays with every small batchSize, zero and negative included (the
\* function checks none of it), and arrays around the default size with the
\* parameter left out.
BatchInsertArgs ==
    ((0..MaxData) \X {-1, 0, 1, 2})
        \cup ({1, DefaultBatchSize, DefaultBatchSize + 1} \X {DefaultBatchSize})

\* The table the model's caller inserts into.
BatchTable == "page_views"

\* The array the caller passes: n rows told apart by their id.
DataArray(n) == [k \in 1..n |-> [event_id |-> k, src |-> [req |-> 0, idx |-> k]]]

RECURSIVE forLoop(_)
RECURSIVE afterInsert(_)

\* Lines 85..95 from the loop's test to the next await that waits for
\* something: the clickhouse.insert of a non-empty slice (insertData returns
\* at once for an empty one) or the 100 ms delay.  handed records the arrays
\* passed to clickhouse.insert.
forLoop(b) ==
    IF ~(b.i < Len(b.dataArray))
    THEN [b EXCEPT !.pc = "returned"]
    ELSE LET batch == Slice(b.dataArray, b.i, b.i + b.batchSize)
         IN IF insertData(batch) = "pending"
            THEN [b EXCEPT !.pc = "insert", !.batch = batch, !.handed = Append(@, batch)]
            ELSE afterInsert([b EXCEPT !.batch = batch])

\* Lines 88..94, after insertData has returned.
afterInsert(b) ==
    LET c == [b EXCEPT !.totalInserted = @ + Len(b.batch), !.batchCount = @ + 1]
    IN IF c.i + c.batchSize < Len(c.dataArray)
       THEN [c EXCEPT !.pc = "delay"]
       ELSE forLoop([c EXCEPT !.i = @ + c.batchSize])

\* The call, up to its first wait.  Every array the model passes is an
\* array, so line 78 returns early for the empty one only.
batchInsert(n, batchSize) ==
    /\ bi.pc = "idle"
    /\ LET b == [NotCalled EXCEPT !.dataArray = DataArray(n), !.batchSize = batchSize]
       IN bi' = IF n = 0 THEN [b EXCEPT !.pc = "returned"] ELSE forLoop(b)
    /\ UNCHANGED <<ingestVars, sessions, get, proc, orderVars, siteVars>>

\* The clickhouse.insert of the current slice settles: the rows are stored
\* and the loop goes on, or insertData rethrows and so does batchInsert.
BatchInsertSettles(ok) ==
    /\ bi.pc = "insert"
    /\ IF ok
       THEN /\ store' = Insert(store, BatchTable, bi.batch)
            /\ bi' = afterInsert(bi)
       ELSE /\ bi' = [bi EXCEPT !.pc = "threw"]
            /\ UNCHANGED store
    /\ UNCHANGED <<phase, clickhouseConnected, req, res, uuids, sessions, get, proc, orderVars, siteVars>>

\* The 100 ms delay between two slices is over: i += batchSize and the loop
\* goes on.  With a batchSize of zero or less the loop never ends; the model
\* follows MaxIters passes of it.
BatchDelayElapses ==
    /\ bi.pc = "delay"
    /\ bi.batchSize > 0 \/ bi.batchCount < MaxIters
    /\ bi' = forLoop([bi EXCEPT !.i = @ + bi.batchSize])
    /\ UNCHANGED <<ingestVars, sessions, get, proc, orderVars, siteVars>>

\* The requests whose events array is as long as the default batch, and one
\* longer, all of one kind.
BulkBodies ==
    {EventsBody([i \in 1..n |-> searchA]) : n \in {DefaultBatchSize, DefaultBatchSize + 1}}

NextBatch ==
    \/ initializeClickHouse /\ UNCHANGED others
    \/ \E body \in BulkBodies : PostEvents(1, body) /\ UNCHANGED others
    \/ \E t \in TableSet, ok \in BOOLEAN : InsertSettles(1, t, ok) /\ UNCHANGED others
    \/ \E a \in BatchInsertArgs : batchInsert(a[1], a[2])
    \/ \E ok \in BOOLEAN : BatchInsertSettles(ok)
    \/ BatchDelayElapses

SpecBatch == Init /\ [][NextBatch]_vars

\* ------------------------------------------ the read side: queries and views

\* The number of minute rows getRealTimeMetrics asks for (LIMIT 60).
MinuteLimit == 60

\* The timeRange values clients send: two intervals ClickHouse understands
\* and two it does not.  A request may also leave the parameter out.
TimeRanges == {"1 HOUR", "24 HOUR", "abc", ""}

Queries == {<<>>} \cup {[timeRange |-> t] : t \in TimeRanges}

\* The minutes in INTERVAL ${timeRange} as ClickHouse reads the interpolated
\* text; -1 when the text is not an interval and the query is rejected.
IntervalMinutes(timeRange) ==
    CASE timeRange = "1 HOUR" -> 60
      [] timeRange = "24 HOUR" -> 1440
      [] timeRange = "7 DAY" -> 10080
      [] OTHER -> -1

\* The page views one load puts into the table: n rows, all in the current
\* minute or one in each of the last n minutes.  age is the number of
\* minutes between the row's minute and the current one; rows are stored at
\* the second of the minute at which queries are made, and the clock does
\* not move on between a load and a query.
PageViewRows(n, perMinute) ==
    [k \in 1..n |->
        [event_id |-> k, age |-> IF perMinute THEN k - 1 ELSE 0,
         session_id |-> "sess_1", user_id |-> "user_1", src |-> [req |-> 0, idx |-> k]]]

PageViewLoads == {1, 3, MinuteLimit, MinuteLimit + 1} \X BOOLEAN

\* Rows of user_sessions: days is the age of session_start_time in days.
sessA == [session_id |-> "sess_1", days |-> 0, session_duration_seconds |-> 900, page_views |-> 1]
sessB == [session_id |-> "sess_2", days |-> 0, session_duration_seconds |-> 2700, page_views |-> 12]
sessOld == [session_id |-> "sess_0", days |-> 30, session_duration_seconds |-> 600, page_views |-> 1]

SessionLoads == {<<sessA>>, <<sessA, sessB>>, <<sessOld>>}

\* Rows written to page_views; nothing in the service limits their number,
\* the model stores one load.
StorePageViews(n, perMinute) ==
    /\ store["page_views"] = <<>>
    /\ store' = Insert(store, "page_views", PageViewRows(n, perMinute))
    /\ UNCHANGED <<phase, clickhouseConnected, req, res, uuids, bi, sessions, get, proc, orderVars, siteVars>>

\* Rows written to user_sessions (the schema's sample rows, or any writer
\* other than this service, which never inserts there).
StoreSessions(rows) ==
    /\ sessions = <<>>
    /\ sessions' = rows
    /\ UNCHANGED <<ingestVars, bi, get, proc, orderVars, siteVars>>

RECURSIVE reduce(_, _, _)
\* array.reduce((sum, x) => sum + x[field], 0) from element k on.
reduce(array, field, k) ==
    IF k > Len(array) THEN 0 ELSE array[k][field] + reduce(array, field, k + 1)

\* clickhouse.js 106..122 on the rows of page_views: those not older than
\* the interval, grouped by minute, latest minute first, the first 60
\* groups.  A text that is no interval makes the query throw.
getRealTimeMetrics(rows, timeRange) ==
    LET range == IntervalMinutes(timeRange)
        inRange == {k \in 1..Len(rows) : rows[k].age <= range}
        minutes == {rows[k].age : k \in inRange}
        Minute(j) == CHOOSE a \in minutes : Cardinality({b \in minutes : b < a}) = j - 1
        Group(a) == {k \in inRange : rows[k].age = a}
        limit == IF Cardinality(minutes) < MinuteLimit THEN Cardinality(minutes) ELSE MinuteLimit
    IN IF range < 0 THEN [threw |-> TRUE, rows |-> <<>>]
       ELSE [threw |-> FALSE,
             rows |-> [j \in 1..limit |->
                         [minute |-> Minute(j),
                          page_views |-> Cardinality(Group(Minute(j))),
                          unique_sessions |-> Cardinality({rows[k].session_id : k \in Group(Minute(j))}),
                          unique_users |-> Cardinality({rows[k].user_id : k \in Group(Minute(j))})]]]

RECURSIVE SumOfDurations(_, _)
\* sum(session_duration_seconds) over the rows at the places S.
SumOfDurations(rows, S) ==
    IF S = {} THEN 0
    ELSE LET k == CHOOSE j \in S : TRUE
         IN rows[k].session_duration_seconds + SumOfDurations(rows, S \ {k})

\* clickhouse.js 168..184 on the rows of user_sessions: those of the last
\* timeRange, grouped by day, latest day first.  The averages of the
\* model's rows are whole numbers; bounce_rate is a percentage.
getUserBehaviorMetrics(rows, timeRange) ==
    LET range == IntervalMinutes(timeRange) \div 1440
        inRange == {k \in 1..Len(rows) : rows[k].days <= range}
        dates == {rows[k].days : k \in inRange}
        Date(j) == CHOOSE a \in dates : Cardinality({b \in dates : b < a}) = j - 1
        Group(a) == {k \in inRange : rows[k].days = a}
        Total(a) == SumOfDurations(rows, Group(a))
        Bounces(a) == Cardinality({k \in Group(a) : rows[k].page_views = 1})
    IN [j \in 1..Cardinality(dates) |->
           [date |-> Date(j),
            total_sessions |-> Cardinality(Group(Date(j))),
            avg_session_duration |-> Total(Date(j)) \div Cardinality(Group(Date(j))),
            bounce_rate |-> (Bounces(Date(j)) * 100) \div Cardinality(Group(Date(j)))]]

\* The result of a query the store did not answer.
QueryFailed == [threw |-> TRUE, rows |-> <<>>]

\* /health answering 503 when its metrics query failed.
healthStatus_Strict(connected, ran, result) ==
    IF ~ran
    THEN [status |-> 200, clickhouse |-> IF connected THEN "connected" ELSE "disconnected"]
    ELSE IF result.threw
    THEN [status |-> 503, clickhouse |-> "disconnected",
          clickhouse_status |-> [connection_status |-> "error"]]
    ELSE [status |-> 200, clickhouse |-> IF connected THEN "connected" ELSE "disconnected",
          recent_activity |->
              [last_hour_page_views |->
                   IF Len(result.rows) > 0 THEN result.rows[1].page_views ELSE 0,
               unique_sessions |->
                   IF Len(result.rows) > 0 THEN result.rows[1].unique_sessions ELSE 0,
               data_points |-> Len(result.rows)]]

\* app-clickhouse.js 50..77: the object /health answers with, always with
\* status 200.  connected is the flag read at line 57; ran tells whether
\* the metrics query was made, result is what it gave.
healthStatus(connected, ran, result) ==
    IF ~ran
    THEN [status |-> 200, clickhouse |-> IF connected THEN "connected" ELSE "disconnected"]
    ELSE IF result.threw
    THEN [status |-> 200, clickhouse |-> IF connected THEN "connected" ELSE "disconnected",
          clickhouse_status |-> [connection_status |-> "error"]]
    ELSE [status |-> 200, clickhouse |-> IF connected THEN "connected" ELSE "disconnected",
          recent_activity |->
              [last_hour_page_views |->
                   IF Len(result.rows) > 0 THEN result.rows[1].page_views ELSE 0,
               unique_sessions |->
                   IF Len(result.rows) > 0 THEN result.rows[1].unique_sessions ELSE 0,
               data_points |-> Len(result.rows)]]

\* Lines 84..90.
NotAvailable ==
    [status |-> 503, success |-> FALSE, error |-> "ClickHouse not available",
     message |-> "Analytics database is not connected"]

\* Lines 128..135.
DashboardFailed ==
    [status |-> 500, success |-> FALSE, error |-> "Failed to fetch dashboard analytics"]

\* The summary with both averages taken from the rows of the requested range.
Summary_SameRange(realtimeMetrics, userBehavior) ==
    [total_page_views |-> reduce(realtimeMetrics, "page_views", 1),
     total_sessions |-> reduce(realtimeMetrics, "unique_sessions", 1),
     total_users |-> reduce(realtimeMetrics, "unique_users", 1),
     avg_session_duration |->
         IF Len(userBehavior) > 0 /\ Len(realtimeMetrics) > 0
         THEN reduce(userBehavior, "avg_session_duration", 1) \div Len(userBehavior) ELSE 0,
     bounce_rate |->
         IF Len(userBehavior) > 0 /\ Len(realtimeMetrics) > 0
         THEN reduce(userBehavior, "bounce_rate", 1) \div Len(userBehavior) ELSE 0]

\* Lines 105..120: the summary of the dashboard view.
Summary(realtimeMetrics, userBehavior) ==
    [total_page_views |-> reduce(realtimeMetrics, "page_views", 1),
     total_sessions |-> reduce(realtimeMetrics, "unique_sessions", 1),
     total_users |-> reduce(realtimeMetrics, "unique_users", 1),
     avg_session_duration |->
         IF Len(userBehavior) > 0
         THEN reduce(userBehavior, "avg_session_duration", 1) \div Len(userBehavior) ELSE 0,
     bounce_rate |->
         IF Len(userBehavior) > 0
         THEN reduce(userBehavior, "bounce_rate", 1) \div Len(userBehavior) ELSE 0]

\* Lines 110..126: the view, without the lists the summary is not made of.
DashboardView(realtimeMetrics, userBehavior, timeRange) ==
    [status |-> 200, success |-> TRUE,
     summary |-> Summary(realtimeMetrics, userBehavior),
     realtime_metrics |-> Slice(realtimeMetrics, 0, 60),
     timeRange |-> timeRange]

\* GET /health up to its await, or to its answer when the flag is false.
GetHealth(q) ==
    /\ phase = "listening"
    /\ get[q] = Unsent
    /\ (q > 1 => get[q - 1] # Unsent)
    /\ get' = [get EXCEPT ![q] =
                  IF clickhouseConnected
                  THEN [pc |-> "awaiting", route |-> "/health", query |-> <<>>,
                        res |-> NoResponse]
                  ELSE [pc |-> "responded", route |-> "/health", query |-> <<>>,
                        res |-> healthStatus(FALSE, FALSE, QueryFailed)]]
    /\ UNCHANGED <<ingestVars, bi, sessions, proc, orderVars, siteVars>>

\* /health taking the outcome of its metrics query as the new state of the
\* connection.
HealthQuerySettles_Reconnect(q, ok) ==
    /\ get[q] # Unsent
    /\ get[q].pc = "awaiting"
    /\ get[q].route = "/health"
    /\ clickhouseConnected' = ok
    /\ LET result == IF ok THEN getRealTimeMetrics(store["page_views"], "1 HOUR")
                     ELSE QueryFailed
       IN get' = [get EXCEPT ![q].pc = "responded",
                             ![q].res = healthStatus(TRUE, TRUE, result)]
    /\ UNCHANGED <<phase, req, res, store, uuids, bi, sessions, proc, orderVars, siteVars>>

\* getRealTimeMetrics('1 HOUR') of /health settles, and the handler answers.
HealthQuerySettles(q, ok) ==
    /\ get[q] # Unsent
    /\ get[q].pc = "awaiting"
    /\ get[q].route = "/health"
    /\ LET result == IF ok THEN getRealTimeMetrics(store["page_views"], "1 HOUR")
                     ELSE QueryFailed
       IN get' = [get EXCEPT ![q].pc = "responded",
                             ![q].res = healthStatus(TRUE, TRUE, result)]
    /\ UNCHANGED <<ingestVars, bi, sessions, proc, orderVars, siteVars>>

\* Line 82: timeRange defaults to '24 HOUR' when the query has none.
TimeRangeOf(query) == IF "timeRange" \in DOMAIN query THEN query.timeRange ELSE "24 HOUR"

\* How many rows of page_views are not older than the interval.
PageViewsFound(timeRange) ==
    Cardinality({k \in 1..Len(store["page_views"]) :
                    store["page_views"][k].age <= IntervalMinutes(timeRange)})

\* How many rows of user_sessions are not older than 7 days.
SessionsFound == Cardinality({k \in 1..Len(sessions) : sessions[k].days <= 7})

\* GET /api/analytics/dashboard up to its await, or to the 503.  found and
\* sessionsFound record what the tables held when the handler answered.
GetDashboard(q, query) ==
    /\ phase = "listening"
    /\ get[q] = Unsent
    /\ (q > 1 => get[q - 1] # Unsent)
    /\ get' = [get EXCEPT ![q] =
                  IF clickhouseConnected
                  THEN [pc |-> "awaiting", route |-> "/api/analytics/dashboard",
                        query |-> query, res |-> NoResponse]
                  ELSE [pc |-> "responded", route |-> "/api/analytics/dashboard",
                        query |-> query, found |-> PageViewsFound(TimeRangeOf(query)),
                        sessionsFound |-> SessionsFound, res |-> NotAvailable]]
    /\ UNCHANGED <<ingestVars, bi, sessions, proc, orderVars, siteVars>>

\* The four queries of the dashboard settle and the handler answers: ok
\* tells whether the store answered them all.
DashboardQueriesSettle(q, ok) ==
    /\ get[q] # Unsent
    /\ get[q].pc = "awaiting"
    /\ get[q].route = "/api/analytics/dashboard"
    /\ LET timeRange == TimeRangeOf(get[q].query)
           realtimeMetrics == IF ok THEN getRealTimeMetrics(store["page_views"], timeRange)
                              ELSE QueryFailed
           userBehavior == getUserBehaviorMetrics(sessions, "7 DAY")
       IN get' = [get EXCEPT ![q] =
                     [pc |-> "responded", route |-> get[q].route, query |-> get[q].query,
                      ok |-> ok, found |-> PageViewsFound(timeRange),
                      sessionsFound |-> SessionsFound,
                      res |-> IF realtimeMetrics.threw THEN DashboardFailed
                              ELSE DashboardView(realtimeMetrics.rows, userBehavior, timeRange)]]
    /\ UNCHANGED <<ingestVars, bi, sessions, proc, orderVars, siteVars>>

NextRead ==
    \/ initializeClickHouse /\ UNCHANGED others
    \/ \E load \in PageViewLoads : StorePageViews(load[1], load[2])
    \/ \E rows \in SessionLoads : StoreSessions(rows)
    \/ \E q \in GetIds : GetHealth(q)
    \/ \E q \in GetIds, ok \in BOOLEAN : HealthQuerySettles(q, ok)
    \/ \E q \in GetIds, query \in Queries : GetDashboard(q, query)
    \/ \E q \in GetIds, ok \in BOOLEAN : DashboardQueriesSettle(q, ok)

SpecRead == Init /\ [][NextRead]_vars

\* ------------------------------------------- shutdown (app-clickhouse.js 541..552)

\* SIGTERM or SIGINT arrives: the handler calls closeConnection() and waits
\* for clickhouse.close().  Nothing stops the server from taking requests,
\* and nothing waits for the handlers that are under way.  before records
\* the requests that had arrived when the signal came.
Signal ==
    /\ proc.pc = "running"
    /\ proc' = [pc |-> "closing", before |-> {r \in ReqIds : req[r] # Unsent}]
    /\ UNCHANGED <<ingestVars, bi, sessions, get, orderVars, siteVars>>

\* The inserts that have been issued and have not settled.
PendingInserts ==
    {c \in ReqIds \X TableSet :
        req[c[1]] # Unsent /\ "promises" \in DOMAIN req[c[1]]
            /\ req[c[1]].promises[c[2]] = "pending"}

RECURSIVE Landed(_, _, _)
\* The rows of the inserts of the set into table t, of request r and the
\* requests after it.
Landed(t, calls, r) ==
    IF r > MaxReqs THEN <<>>
    ELSE (IF <<r, t>> \in calls THEN req[r].batches[t] ELSE <<>>) \o Landed(t, calls, r + 1)

\* closeConnection() has returned (it catches its own errors) and
\* process.exit(0) ends the process.  What becomes of an insert that was
\* under way is up to the connection and the server: landed are the ones
\* whose rows the server still stores.  No handler runs again and no
\* response is sent any more.
Exit(landed) ==
    /\ proc.pc = "closing"
    /\ landed \subseteq PendingInserts
    /\ proc' = [proc EXCEPT !.pc = "exited"]
    /\ store' = [t \in TableSet |-> store[t] \o Landed(t, landed, 1)]
    /\ UNCHANGED <<phase, clickhouseConnected, req, res, uuids, bi, sessions, get, orderVars, siteVars>>

\* The shutdown is followed with one request, sent before or after the
\* signal.
NextShut ==
    \/ proc.pc # "exited" /\ initializeClickHouse /\ UNCHANGED others
    \/ \E body \in Bodies :
          proc.pc # "exited" /\ PostEvents(1, body) /\ UNCHANGED others
    \/ \E t \in TableSet, ok \in BOOLEAN :
          proc.pc # "exited" /\ InsertSettles(1, t, ok) /\ UNCHANGED others
    \/ Signal
    \/ \E landed \in SUBSET PendingInserts : Exit(landed)

SpecShut == Init /\ [][NextShut]_vars

\* --------------------------- the in-memory order service (app-original.js)

\* Orders the model lets clients create.
MaxCreated == 1

\* order_${uuidv4().substr(0, 8)} (line 237): the n-th id generated.
NewOrderId(n) == <<"order_1b9d6bcd", "order_6ec0bd7f", "order_9c4e2a10">>[n]

\* The ids clients name: the seeded orders, the orders the model creates,
\* and one that does not exist.
OrderIds ==
    {"order_001", "order_002", "order_003", "order_none"}
        \cup {NewOrderId(n) : n \in 1..MaxCreated}

\* The bodies of PATCH /api/orders/:id/status: no status, the five valid
\* ones, and one that is not valid.
StatusBodies ==
    {<<>>} \cup {[status |-> st] : st \in {"pending", "confirmed", "shipped", "delivered",
                                            "cancelled", "completed"}}

\* The bodies of POST /api/orders: a complete one and one without items.
OrderBodies ==
    {[customerId |-> "customer_123", customerName |-> "John Smith",
      customerEmail |-> "john.smith@email.com",
      items |-> <<[gameId |-> "game_1", price |-> 10, quantity |-> 1]>>],
     [customerId |-> "customer_123", customerName |-> "John Smith",
      customerEmail |-> "john.smith@email.com"]}

validStatuses == <<"pending", "confirmed", "shipped", "delivered", "cancelled">>

\* array.includes(x).
ArrayIncludes(array, x) == \E k \in 1..Len(array) : array[k] = x

\* orders.findIndex(o => o.id === orderId), 1-based; 0 for JavaScript's -1.
findIndex(orderId) ==
    IF \E k \in 1..Len(orders) : orders[k].id = orderId
    THEN CHOOSE k \in 1..Len(orders) :
             orders[k].id = orderId /\ \A j \in 1..(k - 1) : orders[j].id # orderId
    ELSE 0

\* Lines 219..256: POST /api/orders.  The new order is put at the front.
CreateOrder(body) ==
    /\ Len(orders) < Len(SeededOrders) + MaxCreated
    /\ IF \/ "customerId" \notin DOMAIN body \/ "customerName" \notin DOMAIN body
          \/ "customerEmail" \notin DOMAIN body \/ "items" \notin DOMAIN body
          \/ Len(body.items) = 0
       THEN /\ orderRes' = [status |-> 400, error |-> "Missing required fields"]
            /\ UNCHANGED orders
       ELSE LET newOrder == [id |-> NewOrderId(Len(orders) - Len(SeededOrders) + 1),
                             customerId |-> body.customerId,
                             status |-> "pending", orderDate |-> 30]
            IN /\ orders' = <<newOrder>> \o orders
               /\ orderRes' = [status |-> 201, message |-> "Order created successfully",
                               order |-> newOrder]
    /\ UNCHANGED <<ingestVars, bi, sessions, get, proc, db, tx, siteVars>>

\* Lines 259..287: PATCH /api/orders/:id/status.
PatchStatus(orderId, body) ==
    /\ IF "status" \notin DOMAIN body \/ ~ArrayIncludes(validStatuses, body.status)
       THEN /\ orderRes' = [status |-> 400, error |-> "Invalid status"]
            /\ UNCHANGED orders
       ELSE IF findIndex(orderId) = 0
       THEN /\ orderRes' = [status |-> 404, error |-> "Order not found"]
            /\ UNCHANGED orders
       ELSE /\ orders' = [orders EXCEPT ![findIndex(orderId)].status = body.status]
            /\ orderRes' = [status |-> 200, message |-> "Order status updated successfully",
                            order |-> orders'[findIndex(orderId)]]
    /\ UNCHANGED <<ingestVars, bi, sessions, get, proc, db, tx, siteVars>>

\* Lines 364..390: DELETE /api/orders/:id.
CancelOrder(orderId) ==
    /\ IF findIndex(orderId) = 0
       THEN /\ orderRes' = [status |-> 404, error |-> "Order not found"]
            /\ UNCHANGED orders
       ELSE IF orders[findIndex(orderId)].status \in {"shipped", "delivered"}
       THEN /\ orderRes' = [status |-> 400, error |-> "Cannot cancel order"]
            /\ UNCHANGED orders
       ELSE /\ orders' = [orders EXCEPT ![findIndex(orderId)].status = "cancelled"]
            /\ orderRes' = [status |-> 200, message |-> "Order cancelled successfully",
                            order |-> orders'[findIndex(orderId)]]
    /\ UNCHANGED <<ingestVars, bi, sessions, get, proc, db, tx, siteVars>>

\* array.sort((a, b) => new Date(b.orderDate) - new Date(a.orderDate)):
\* latest first, orders of the same date in the order they had.
sortByDateDesc(array) ==
    LET Rank(k) ==
            1 + Cardinality({j \in 1..Len(array) :
                                \/ array[j].orderDate > array[k].orderDate
                                \/ array[j].orderDate = array[k].orderDate /\ j < k})
    IN [p \in 1..Len(array) |-> array[CHOOSE k \in 1..Len(array) : Rank(k) = p]]

\* Lines 145..201: GET /api/orders without query parameters.  The handler
\* sorts and slices a copy, [...orders].
GetOrders ==
    /\ orderRes' = [status |-> 200, route |-> "/api/orders",
                    orders |-> Slice(sortByDateDesc(orders), 0, 10)]
    /\ UNCHANGED orders
    /\ UNCHANGED <<ingestVars, bi, sessions, get, proc, db, tx, siteVars>>

\* Lines 204..216: GET /api/orders/:id.
GetOrder(orderId) ==
    /\ orderRes' = IF findIndex(orderId) = 0
                   THEN [status |-> 404, route |-> "/api/orders/:id", error |-> "Order not found"]
                   ELSE [status |-> 200, route |-> "/api/orders/:id",
                         order |-> orders[findIndex(orderId)]]
    /\ UNCHANGED orders
    /\ UNCHANGED <<ingestVars, bi, sessions, get, proc, db, tx, siteVars>>

\* Lines 290..308: GET /api/orders/status/:status; filter makes a new array.
GetOrdersByStatus(status) ==
    /\ LET statusOrders == SelectSeq(orders, LAMBDA o : o.status = status)
       IN orderRes' = IF Len(statusOrders) = 0
                      THEN [status |-> 404, route |-> "/api/orders/status/:status",
                            error |-> "No orders found for this status"]
                      ELSE [status |-> 200, route |-> "/api/orders/status/:status",
                            orders |-> statusOrders]
    /\ UNCHANGED orders
    /\ UNCHANGED <<ingestVars, bi, sessions, get, proc, db, tx, siteVars>>

\* Lines 311..336: GET /api/customers/:customerId/orders.
GetCustomerOrders(customerId) ==
    /\ LET customerOrders == SelectSeq(orders, LAMBDA o : o.customerId = customerId)
       IN orderRes' = IF Len(customerOrders) = 0
                      THEN [status |-> 404, route |-> "/api/customers/:customerId/orders",
                            error |-> "No orders found for this customer"]
                      ELSE [status |-> 200, route |-> "/api/customers/:customerId/orders",
                            orders |-> customerOrders]
    /\ UNCHANGED orders
    /\ UNCHANGED <<ingestVars, bi, sessions, get, proc, db, tx, siteVars>>

\* Lines 339..361: GET /api/orders/stats/summary.  orders.sort(...) sorts
\* the orders array itself, and slice(0, 5) copies from the sorted array.
GetStats ==
    /\ orders' = sortByDateDesc(orders)
    /\ orderRes' = [status |-> 200, route |-> "/api/orders/stats/summary",
                    totalOrders |-> Len(orders),
                    recentOrders |-> Slice(sortByDateDesc(orders), 0, 5)]
    /\ UNCHANGED <<ingestVars, bi, sessions, get, proc, db, tx, siteVars>>

NextOrders ==
    \/ GetOrders
    \/ \E orderId \in OrderIds : GetOrder(orderId)
    \/ \E status \in {"pending", "shipped", "delivered"} : GetOrdersByStatus(status)
    \/ \E customerId \in {"customer_123", "customer_000"} : GetCustomerOrders(customerId)
    \/ GetStats
    \/ \E body \in OrderBodies : CreateOrder(body)
    \/ \E orderId \in OrderIds, body \in StatusBodies : PatchStatus(orderId, body)
    \/ \E orderId \in OrderIds : CancelOrder(orderId)

SpecOrders == Init /\ [][NextOrders]_vars

\* ------------------- the database-backed order service (order-service/app.js)

\* Orders the model lets the database hold.
MaxDbOrders == 2

\* Items of an order: a plain one, a discounted one, and one without a
\* unit_price.  Money is in cents.
itemA == [game_id |-> 1, game_name |-> "Game 1", unit_price |-> 1000, quantity |-> 1]
itemDisc ==
    [game_id |-> 2, game_name |-> "Game 2", unit_price |-> 2500, discount_price |-> 2000,
     quantity |-> 2]
itemBad == [game_id |-> 3, game_name |-> "Game 3", quantity |-> 1]

ItemPool == {itemA, itemDisc, itemBad}

\* The bodies of POST /api/orders: without customer_id, with items that is
\* no array or an empty one, and with one or two items.
PostOrderBodies ==
    {[items |-> [isArray |-> TRUE, items |-> <<itemA>>]],
     [customer_id |-> "CUST001", items |-> [isArray |-> FALSE, items |-> <<>>]],
     [customer_id |-> "CUST001", items |-> [isArray |-> TRUE, items |-> <<>>]]}
        \cup {[customer_id |-> "CUST001", items |-> [isArray |-> TRUE, items |-> its]] :
                 its \in SeqsUpTo(ItemPool, 2) \ {<<>>}}

\* !x for a field of an item: true when the field is absent or 0.
Not(item, field) == field \notin DOMAIN item \/ item[field] = 0

\* Lines 267..272.
OrderInvalid(body) ==
    \/ "customer_id" \notin DOMAIN body
    \/ "items" \notin DOMAIN body
    \/ ~body.items.isArray
    \/ Len(body.items.items) = 0

\* Lines 282..287: the check every item passes before anything is inserted.
ItemInvalid(item) == Not(item, "game_id") \/ Not(item, "unit_price") \/ Not(item, "quantity")

RECURSIVE Subtotal(_, _)
\* Lines 281..287: the sum of unit_price * quantity from item k on.
Subtotal(items, k) ==
    IF k > Len(items) THEN 0
    ELSE items[k].unit_price * items[k].quantity + Subtotal(items, k + 1)

\* Lines 289..312: the row INSERT INTO orders ... RETURNING * gives back.
OrderRow(order_id, body) ==
    LET subtotal == Subtotal(body.items.items, 1)
        tax_amount == (subtotal * 8) \div 100
        shipping_cost == IF subtotal > 5000 THEN 0 ELSE 599
    IN [order_id |-> order_id, customer_id |-> body.customer_id, order_status |-> "pending",
        subtotal |-> subtotal, tax_amount |-> tax_amount, shipping_cost |-> shipping_cost,
        total_amount |-> subtotal + tax_amount + shipping_cost]

\* Lines 317..335: the row of one item; discount_price || unit_price.
ItemRow(order_id, item) ==
    LET price == IF Not(item, "discount_price") THEN item.unit_price ELSE item.discount_price
    IN [order_id |-> order_id, game_id |-> item.game_id, quantity |-> item.quantity,
        unit_price |-> item.unit_price, total_price |-> price * item.quantity]

\* Lines 340..349.
Created(order) ==
    [status |-> 201, success |-> TRUE, message |-> "Order created successfully",
     order_id |-> order.order_id, total_amount |-> order.total_amount]

\* Lines 267..272.
MissingFields ==
    [status |-> 400, success |-> FALSE,
     error |-> "Missing required fields: customer_id and items array"]

\* Lines 351..358.
CreateFailed == [status |-> 500, success |-> FALSE, error |-> "Failed to create order"]

\* A statement run outside any transaction: its row is committed at once.
Write_Autocommit(d, t, table, row) ==
    [db |-> [d EXCEPT ![table] = Append(@, row)], tx |-> t]

\* An INSERT between BEGIN and COMMIT: its row is the transaction's own
\* until the commit.
Write(d, t, table, row) ==
    [db |-> d, tx |-> [t EXCEPT !.pending[table] = Append(@, row)]]

\* Lines 21..36: testConnection() answers true or false.
initializeDatabase(ok) ==
    /\ ~db.started
    /\ db' = [db EXCEPT !.started = TRUE, !.connected = ok]
    /\ UNCHANGED <<ingestVars, bi, sessions, get, proc, orders, orderRes, tx, siteVars>>

\* POST /api/orders up to the first await of transaction(), pool.connect(),
\* or to the response when it does not get that far.  snapshot records the
\* committed rows at the arrival of the request.
PostOrder(body) ==
    /\ db.started
    /\ tx.pc \in {"idle", "responded"}
    /\ Len(db.orders) < MaxDbOrders
    /\ LET t == [pc |-> "connect", body |-> body, i |-> 1,
                 pending |-> [orders |-> <<>>, order_items |-> <<>>],
                 snapshot |-> [orders |-> db.orders, order_items |-> db.order_items],
                 failedAt |-> "none", res |-> NoResponse]
       IN tx' = IF OrderInvalid(body)
                THEN [t EXCEPT !.pc = "responded", !.res = MissingFields]
                ELSE IF ~db.connected
                THEN [t EXCEPT !.pc = "responded", !.res = CreateFailed]
                ELSE t
    /\ UNCHANGED <<ingestVars, bi, sessions, get, proc, orders, orderRes, db, siteVars>>

\* The statement the transaction waits for has failed: the helper's catch
\* block issues ROLLBACK.
Fails(t) == [t EXCEPT !.pc = "rollback", !.failedAt = t.pc]

\* pool.connect() settles; a failure is thrown before the try block, and
\* the handler answers 500.
PoolConnects(ok) ==
    /\ tx.pc = "connect"
    /\ tx' = IF ok THEN [tx EXCEPT !.pc = "begin"]
             ELSE [tx EXCEPT !.pc = "responded", !.failedAt = "connect", !.res = CreateFailed]
    /\ UNCHANGED <<ingestVars, bi, sessions, get, proc, orders, orderRes, db, siteVars>>

\* BEGIN settles.  The callback then checks every item (lines 281..287) and
\* issues the INSERT of the order; an invalid item throws before that.
Begins(ok) ==
    /\ tx.pc = "begin"
    /\ tx' = IF ~ok THEN Fails(tx)
             ELSE IF \E k \in 1..Len(tx.body.items.items) : ItemInvalid(tx.body.items.items[k])
             THEN [tx EXCEPT !.pc = "rollback", !.failedAt = "validation"]
             ELSE [tx EXCEPT !.pc = "insert_order"]
    /\ UNCHANGED <<ingestVars, bi, sessions, get, proc, orders, orderRes, db, siteVars>>

\* The order_id the next INSERT INTO orders gets.
NextOrderId == Len(db.orders) + 1

\* INSERT INTO orders settles; the INSERT of the first item is issued.
OrderInserted(ok) ==
    /\ tx.pc = "insert_order"
    /\ IF ~ok THEN tx' = Fails(tx) /\ UNCHANGED db
       ELSE LET w == Write(db, tx, "orders", OrderRow(NextOrderId, tx.body))
            IN /\ db' = w.db
               /\ tx' = [w.tx EXCEPT !.pc = "insert_item", !.i = 1]
    /\ UNCHANGED <<ingestVars, bi, sessions, get, proc, orders, orderRes, siteVars>>

\* INSERT INTO order_items of item i settles; the next one, or COMMIT after
\* the last, is issued.
ItemInserted(ok) ==
    /\ tx.pc = "insert_item"
    /\ IF ~ok THEN tx' = Fails(tx) /\ UNCHANGED db
       ELSE LET w == Write(db, tx, "order_items",
                           ItemRow(NextOrderId, tx.body.items.items[tx.i]))
            IN /\ db' = w.db
               /\ tx' = [w.tx EXCEPT !.i = @ + 1,
                                     !.pc = IF tx.i = Len(tx.body.items.items)
                                            THEN "commit" ELSE "insert_item"]
    /\ UNCHANGED <<ingestVars, bi, sessions, get, proc, orders, orderRes, siteVars>>

\* COMMIT settles: the transaction's rows are committed together and the
\* handler answers 201, or nothing is and the catch block issues ROLLBACK.
Commits(ok) ==
    /\ tx.pc = "commit"
    /\ IF ~ok THEN tx' = Fails(tx) /\ UNCHANGED db
       ELSE /\ db' = [db EXCEPT !.orders = @ \o tx.pending.orders,
                                !.order_items = @ \o tx.pending.order_items]
            /\ tx' = [tx EXCEPT !.pc = "responded",
                                !.pending = [orders |-> <<>>, order_items |-> <<>>],
                                !.res = Created(OrderRow(NextOrderId, tx.body))]
    /\ UNCHANGED <<ingestVars, bi, sessions, get, proc, orders, orderRes, siteVars>>

\* ROLLBACK settles; whether it succeeds or the connection is gone, the
\* transaction's rows are dropped, the error is thrown on and the handler
\* answers 500.
RollsBack(ok) ==
    /\ tx.pc = "rollback"
    /\ tx' = [tx EXCEPT !.pc = "responded",
                        !.pending = [orders |-> <<>>, order_items |-> <<>>],
                        !.res = CreateFailed]
    /\ UNCHANGED <<ingestVars, bi, sessions, get, proc, orders, orderRes, db, siteVars>>

NextOrderDb ==
    \/ \E ok \in BOOLEAN : initializeDatabase(ok)
    \/ \E body \in PostOrderBodies : PostOrder(body)
    \/ \E ok \in BOOLEAN : PoolConnects(ok)
    \/ \E ok \in BOOLEAN : Begins(ok)
    \/ \E ok \in BOOLEAN : OrderInserted(ok)
    \/ \E ok \in BOOLEAN : ItemInserted(ok)
    \/ \E ok \in BOOLEAN : Commits(ok)
    \/ \E ok \in BOOLEAN : RollsBack(ok)

SpecOrderDb == Init /\ [][NextOrderDb]_vars

\* -------------------------- the service as a whole: reads and writes together

\* The bodies posted while reads are under way: search events, which go to
\* a table the reads do not look at.
SearchBodies == {EventsBody(<<searchA>>), EventsBody(<<searchA, searchA>>)}

NextService ==
    \/ initializeClickHouse /\ UNCHANGED others
    \/ \E body \in SearchBodies : PostEvents(1, body) /\ UNCHANGED others
    \/ \E t \in TableSet, ok \in BOOLEAN : InsertSettles(1, t, ok) /\ UNCHANGED others
    \/ \E q \in GetIds : GetHealth(q)
    \/ \E q \in GetIds, ok \in BOOLEAN : HealthQuerySettles(q, ok)
    \/ \E q \in GetIds, query \in Queries : GetDashboard(q, query)
    \/ \E q \in GetIds, ok \in BOOLEAN : DashboardQueriesSettle(q, ok)

SpecService == Init /\ [][NextService]_vars

\* ------------------------------------------- the page's tracker (LugxAnalytics)

\* The variables of the services, which no browser or script action changes.
serverVars == <<ingestVars, bi, sessions, get, proc, orderVars>>

MaxSends == 5

\* part_001:411..414 and the constructor, lines 143..159: the flags start
\* false and the first checkServiceAvailability() is under way.
DOMContentLoaded ==
    /\ ~tracker.loaded
    /\ tracker' = [tracker EXCEPT !.loaded = TRUE, !.serviceAvailable = FALSE,
                                  !.healthCheckCompleted = FALSE,
                                  !.constructing = TRUE, !.checks = 1]
    /\ UNCHANGED healthy

\* The analytics service starts answering /api/analytics/health with 200 and
\* JSON, and goes on doing so.
ServiceRecovers ==
    /\ ~healthy
    /\ healthy' = TRUE
    /\ UNCHANGED tracker

\* Lines 161..201, from the settling of fetch to the end: response.ok with a
\* JSON content type sets serviceAvailable, everything else (a status that is
\* not 2xx, another content type, a network error, the 3 s abort) clears it.
\* Lines 154..158: the constructor's check, when it found the service, calls
\* initializeTracking, whose trackPageView (line 219) sends the first event.
HealthCheckSettles ==
    /\ tracker.checks > 0
    /\ LET first == tracker.constructing /\ healthy
       IN tracker' = [tracker EXCEPT
                        !.checks = @ - 1,
                        !.serviceAvailable = healthy,
                        !.healthCheckCompleted = TRUE,
                        !.constructing = FALSE,
                        !.sends = IF first THEN @ + 1 ELSE @,
                        !.sent = IF first THEN @ + 1 ELSE @]
    /\ UNCHANGED healthy

\* Lines 233..260, called by the track methods (lines 287..366): nothing is
\* sent unless both flags are set.
sendEvent ==
    /\ tracker.loaded
    /\ tracker.serviceAvailable /\ tracker.healthCheckCompleted
    /\ tracker.sent < MaxSends
    /\ tracker' = [tracker EXCEPT !.sends = @ + 1, !.sent = @ + 1]
    /\ UNCHANGED healthy

SendSettles_NoRecheck(outcome) ==
    /\ tracker.sends > 0
    /\ tracker' = IF outcome \in {"5xx", "rejected"}
                  THEN [tracker EXCEPT !.sends = @ - 1, !.serviceAvailable = FALSE]
                  ELSE [tracker EXCEPT !.sends = @ - 1]
    /\ UNCHANGED healthy

\* Lines 262..284: a 2xx or 4xx answer changes nothing; a status of 500 or
\* more, or a rejected fetch, clears serviceAvailable and sets a 30 s timer.
SendSettles(outcome) ==
    /\ tracker.sends > 0
    /\ tracker' = IF outcome \in {"5xx", "rejected"}
                  THEN [tracker EXCEPT !.sends = @ - 1, !.serviceAvailable = FALSE,
                                       !.timers = @ + 1]
                  ELSE [tracker EXCEPT !.sends = @ - 1]
    /\ UNCHANGED healthy

\* Lines 272..274 and 281..283: the timer runs checkServiceAvailability().
TimerFires ==
    /\ tracker.timers > 0
    /\ tracker' = [tracker EXCEPT !.timers = @ - 1, !.checks = @ + 1]
    /\ UNCHANGED healthy

SendOutcomes == {"2xx", "4xx", "5xx", "rejected"}

NextTracker ==
    \/ DOMContentLoaded /\ UNCHANGED <<serverVars, cart, localStorage, checkout, cluster, script>>
    \/ ServiceRecovers /\ UNCHANGED <<serverVars, cart, localStorage, checkout, cluster, script>>
    \/ HealthCheckSettles /\ UNCHANGED <<serverVars, cart, localStorage, checkout, cluster, script>>
    \/ sendEvent /\ UNCHANGED <<serverVars, cart, localStorage, checkout, cluster, script>>
    \/ \E outcome \in SendOutcomes : SendSettles(outcome) /\ UNCHANGED <<serverVars, cart, localStorage, checkout, cluster, script>>
    \/ TimerFires /\ UNCHANGED <<serverVars, cart, localStorage, checkout, cluster, script>>

SpecTracker == Init /\ [][NextTracker]_vars

\* The browser runs every timer that is due and settles every fetch (the
\* health check aborts after 3 s, line 164); the page is loaded.
SpecTrackerFair ==
    /\ SpecTracker
    /\ WF_vars(DOMContentLoaded /\ UNCHANGED <<serverVars, cart, localStorage, checkout, cluster, script>>)
    /\ WF_vars(HealthCheckSettles /\ UNCHANGED <<serverVars, cart, localStorage, checkout, cluster, script>>)
    /\ WF_vars(TimerFires /\ UNCHANGED <<serverVars, cart, localStorage, checkout, cluster, script>>)
    /\ WF_vars(\E outcome \in SendOutcomes :
                  SendSettles(outcome) /\ UNCHANGED <<serverVars, cart, localStorage, checkout, cluster, script>>)

\* ------------------------------------------------ the frontend cart (game-loader.js)

MaxQuantity == 3

MaxCheckouts == 2

\* game-loader.js:21..38, the first two fallback games (prices in cents).
fallbackGames ==
    <<[id |-> 1, title |-> "Call of Duty: Modern Warfare", price |-> 5999],
      [id |-> 2, title |-> "FIFA 24", price |-> 4999]>>

\* game-loader.js:482..487, the game window.testCart() passes to addGameToCart.
testGame == [id |-> 999, title |-> "Test Game", price |-> 2999]

\* The ids a button's data-game-id can carry; 0 is the id of no game.
GameIds == {0, 1, 2}

\* The indexes the cart display's buttons can pass (JavaScript counts from 0);
\* -1 and 3 are indexes of no entry.
CartIndexes == -1 .. 3

\* JSON.stringify(this.cart): each entry becomes its list of key/value pairs.
JSON_stringify(array) ==
    [i \in DOMAIN array |->
        << <<"id", array[i].id>>, <<"title", array[i].title>>,
           <<"price", array[i].price>>, <<"quantity", array[i].quantity>> >>]

\* JSON.parse of such a text.
JSON_parse(text) ==
    [i \in DOMAIN text |->
        [id |-> text[i][1][2], title |-> text[i][2][2],
         price |-> text[i][3][2], quantity |-> text[i][4][2]]]

\* Lines 237..239.
saveCart(array) == [has |-> TRUE, lugx_cart |-> JSON_stringify(array)]

\* Array.prototype.find over this.games || this.fallbackGames (line 242): the
\* first game of that id, or <<>> when there is none.
find(gameId) ==
    LET hits == {i \in DOMAIN fallbackGames : fallbackGames[i].id = gameId}
    IN IF hits = {} THEN <<>>
       ELSE <<fallbackGames[CHOOSE i \in hits : \A j \in hits : i <= j]>>

\* this.cart.findIndex(item => item.id === game.id), counted from 1; 0 for -1.
cartIndexOf(array, id) ==
    LET hits == {i \in DOMAIN array : array[i].id = id}
    IN IF hits = {} THEN 0 ELSE CHOOSE i \in hits : \A j \in hits : i <= j

\* Array.prototype.splice(index, 1): a negative index counts from the end, an
\* index past the end removes nothing.
splice(array, index) ==
    LET len == Len(array)
        start == IF index < 0 THEN (IF len + index < 0 THEN 0 ELSE len + index)
                 ELSE (IF index > len THEN len ELSE index)
    IN SubSeq(array, 1, start) \o SubSeq(array, start + 2, len)

\* Lines 232..235, run at DOMContentLoaded (line 477).
loadCart ==
    /\ cart' = IF localStorage.has THEN JSON_parse(localStorage.lugx_cart) ELSE <<>>
    /\ UNCHANGED <<localStorage, checkout>>

\* Lines 249..279.
addGameToCart(game) ==
    LET existingItemIndex == cartIndexOf(cart, game.id)
    IN /\ IF existingItemIndex # 0
          THEN \* an entry's quantity is never falsy here, so line 255 is skipped
               /\ cart[existingItemIndex].quantity < MaxQuantity
               /\ cart' = [cart EXCEPT ![existingItemIndex].quantity = @ + 1]
          ELSE cart' = Append(cart, [id |-> game.id, title |-> game.title,
                                     price |-> game.price, quantity |-> 1])
       /\ localStorage' = saveCart(cart')
       /\ UNCHANGED checkout

\* Lines 241..247; a gameId of no game changes nothing.
addToCart(gameId) ==
    /\ find(gameId) # <<>>
    /\ addGameToCart(find(gameId)[1])

\* Lines 360..369.
removeFromCart(index) ==
    /\ cart' = splice(cart, index)
    /\ localStorage' = saveCart(cart')
    /\ UNCHANGED checkout

\* Lines 371..383; this.cart[index] is undefined outside 0..length-1.
increaseQuantity(index) ==
    /\ index + 1 \in DOMAIN cart
    /\ cart[index + 1].quantity < MaxQuantity
    /\ cart' = [cart EXCEPT ![index + 1].quantity = @ + 1]
    /\ localStorage' = saveCart(cart')
    /\ UNCHANGED checkout

decreaseQuantity_NoRemove(index) ==
    /\ index + 1 \in DOMAIN cart
    /\ cart' = [cart EXCEPT ![index + 1].quantity = @ - 1]
    /\ localStorage' = saveCart(cart')
    /\ UNCHANGED checkout

\* Lines 385..402.
decreaseQuantity(index) ==
    /\ index + 1 \in DOMAIN cart
    /\ IF cart[index + 1].quantity > 1
       THEN /\ cart' = [cart EXCEPT ![index + 1].quantity = @ - 1]
            /\ localStorage' = saveCart(cart')
            /\ UNCHANGED checkout
       ELSE removeFromCart(index)

\* The methods class LugxAnalytics defines (part_001:142..407).
LugxAnalyticsMethods ==
    {"checkServiceAvailability", "generateSessionId", "getUserId", "initializeTracking",
     "sendEvent", "trackPageView", "trackGameInteraction", "trackSearch",
     "trackPerformance", "getPageCategory", "getScrollDepth", "trackScrollDepth",
     "startTimeTracking"}

\* Calling object.method(...) throws a TypeError when the object has no such method.
Throws(method) == method \notin LugxAnalyticsMethods

\* Lines 404..433, the checkout button of the cart display (shown for a cart
\* that is not empty, lines 296..299): the order is posted.
processCheckout ==
    /\ checkout.pc = "idle"
    /\ checkout.calls < MaxCheckouts
    /\ cart # <<>>
    /\ checkout' = [checkout EXCEPT !.pc = "fetch", !.calls = @ + 1]
    /\ UNCHANGED <<cart, localStorage>>

\* Lines 426..437 and 458..468: fetch rejects (network error), or answers with
\* a status that is not 2xx, or answers 2xx.
FetchSettles(outcome) ==
    /\ checkout.pc = "fetch"
    /\ checkout' = IF outcome = "ok"
                   THEN [checkout EXCEPT !.pc = "json"]
                   ELSE [checkout EXCEPT !.pc = "idle", !.alerts = Append(@, "failed")]
    /\ UNCHANGED <<cart, localStorage>>

\* Lines 438..468, from the settling of response.json() to the end of the
\* call: one synchronous run.
JsonSettles(parsed) ==
    /\ checkout.pc = "json"
    /\ IF ~parsed
       THEN /\ checkout' = [checkout EXCEPT !.pc = "idle", !.alerts = Append(@, "failed")]
            /\ UNCHANGED <<cart, localStorage>>
       ELSE /\ cart' = <<>>
            /\ localStorage' = saveCart(cart')
            /\ checkout' =
                  [checkout EXCEPT
                     !.pc = "idle",
                     !.alerts = IF tracker.loaded /\ Throws("trackPurchaseEvent")
                                THEN @ \o <<"success", "failed">>
                                ELSE Append(@, "success")]

NextCart ==
    \/ loadCart /\ UNCHANGED <<serverVars, tracker, healthy, cluster, script>>
    \/ \E gameId \in GameIds : addToCart(gameId) /\ UNCHANGED <<serverVars, tracker, healthy, cluster, script>>
    \/ addGameToCart(testGame) /\ UNCHANGED <<serverVars, tracker, healthy, cluster, script>>
    \/ \E index \in CartIndexes : increaseQuantity(index) /\ UNCHANGED <<serverVars, tracker, healthy, cluster, script>>
    \/ \E index \in CartIndexes : decreaseQuantity(index) /\ UNCHANGED <<serverVars, tracker, healthy, cluster, script>>
    \/ \E index \in CartIndexes : removeFromCart(index) /\ UNCHANGED <<serverVars, tracker, healthy, cluster, script>>
    \/ processCheckout /\ UNCHANGED <<serverVars, tracker, healthy, cluster, script>>
    \/ \E outcome \in {"rejected", "not ok", "ok"} : FetchSettles(outcome) /\ UNCHANGED <<serverVars, tracker, healthy, cluster, script>>
    \/ \E parsed \in BOOLEAN : JsonSettles(parsed) /\ UNCHANGED <<serverVars, tracker, healthy, cluster, script>>
    \/ DOMContentLoaded /\ UNCHANGED <<serverVars, cart, localStorage, checkout, healthy, cluster, script>>

SpecCart == Init /\ [][NextCart]_vars

\* ------------------------------------- the blue-green deployment script (ci-cd)

MaxRuns == 2

NServices == Len(ServiceNames)

\* Lines 29..33: the environment the lugx-frontend Service selects.
get_active_environment == cluster.selector[1]

\* Lines 35..45.
get_target_environment ==
    IF get_active_environment = "blue" THEN "green"
    ELSE IF get_active_environment = "green" THEN "blue"
    ELSE "blue"

\* The script ends with this exit status (set -e, line 6, ends it at the
\* first command that fails).
exit(status) == [script EXCEPT !.pc = "exited", !.step = 0, !.status = status]

\* Lines 113..120: a run of `deploy` starts.
main ==
    /\ script.pc \in {"not run", "exited"}
    /\ script.runs < MaxRuns
    /\ script' = [pc |-> "apply", step |-> 0,
                  CURRENT_ENV |-> get_active_environment,
                  TARGET_ENV |-> get_target_environment,
                  status |-> 0, runs |-> script.runs + 1, before |-> cluster,
                  passed |-> {}]
    /\ UNCHANGED cluster

\* Lines 122..131: kubectl apply of the target environment's manifests starts
\* a rollout of its four deployments, or fails.
ApplyManifests(ok) ==
    /\ script.pc = "apply"
    /\ IF ok
       THEN /\ cluster' = [cluster EXCEPT
                             !.deployment[script.TARGET_ENV] =
                                 [i \in DOMAIN ServiceNames |-> "rolling"]]
            /\ script' = [script EXCEPT !.pc = "wait", !.step = 1]
       ELSE /\ script' = exit(1)
            /\ UNCHANGED cluster

wait_for_deployment_NoExit(ok) ==
    /\ script.pc = "wait"
    /\ cluster' = IF ok
                  THEN [cluster EXCEPT !.deployment[script.TARGET_ENV][script.step] = "ready"]
                  ELSE cluster
    /\ script' = [script EXCEPT
                    !.passed = IF ok THEN @ \cup {ServiceNames[script.step]} ELSE @,
                    !.pc = IF script.step = NServices THEN "health" ELSE "wait",
                    !.step = IF script.step = NServices THEN 0 ELSE @ + 1]

\* Lines 47..58 and 133..137: kubectl rollout status returns 0 once the
\* deployment is ready, and not 0 after 300 s without that.
wait_for_deployment(ok) ==
    /\ script.pc = "wait"
    /\ IF ok
       THEN /\ cluster' = [cluster EXCEPT
                             !.deployment[script.TARGET_ENV][script.step] = "ready"]
            /\ script' = [script EXCEPT
                            !.passed = @ \cup {ServiceNames[script.step]},
                            !.pc = IF script.step = NServices THEN "health" ELSE "wait",
                            !.step = IF script.step = NServices THEN 0 ELSE @ + 1]
       ELSE /\ script' = exit(1)
            /\ UNCHANGED cluster

\* Lines 60..84 and 140: curl -f against the target's frontend.
run_health_checks(ok) ==
    /\ script.pc = "health"
    /\ script' = IF ok
                 THEN [script EXCEPT !.passed = @ \cup {"health"}, !.pc = "switch", !.step = 1]
                 ELSE exit(1)
    /\ UNCHANGED cluster

\* Lines 86..98 and 143: one kubectl patch per Service, in this order.
switch_traffic(ok) ==
    /\ script.pc = "switch"
    /\ IF ok
       THEN /\ cluster' = [cluster EXCEPT !.selector[script.step] = script.TARGET_ENV]
            /\ script' = [script EXCEPT
                            !.pc = IF script.step = NServices THEN "tests" ELSE "switch",
                            !.step = IF script.step = NServices THEN 0 ELSE @ + 1]
       ELSE /\ script' = exit(1)
            /\ UNCHANGED cluster

\* Lines 145..159: run_tests.sh is run when the file exists; afterwards the
\* old environment is cleaned up when there is one.
RunTests(outcome) ==
    /\ script.pc = "tests"
    /\ script' = IF outcome = "failed" THEN exit(1)
                 ELSE IF script.CURRENT_ENV # "none" /\ script.CURRENT_ENV # script.TARGET_ENV
                      THEN [script EXCEPT !.pc = "cleanup", !.step = 1]
                      ELSE exit(0)
    /\ UNCHANGED cluster

\* Lines 100..111 and 161..163: one kubectl scale --replicas=0 per deployment
\* of the old environment, each with `|| true`.
cleanup_old_environment(ok) ==
    /\ script.pc = "cleanup"
    /\ cluster' = IF ok /\ script.CURRENT_ENV \in Environments
                  THEN [cluster EXCEPT
                          !.deployment[script.CURRENT_ENV][script.step] = "scaled down"]
                  ELSE cluster
    /\ script' = IF script.step = NServices THEN exit(0)
                 ELSE [script EXCEPT !.step = @ + 1]

NextDeploy ==
    \/ main /\ UNCHANGED <<serverVars, cart, localStorage, checkout, tracker, healthy>>
    \/ \E ok \in BOOLEAN : ApplyManifests(ok) /\ UNCHANGED <<serverVars, cart, localStorage, checkout, tracker, healthy>>
    \/ \E ok \in BOOLEAN : wait_for_deployment(ok) /\ UNCHANGED <<serverVars, cart, localStorage, checkout, tracker, healthy>>
    \/ \E ok \in BOOLEAN : run_health_checks(ok) /\ UNCHANGED <<serverVars, cart, localStorage, checkout, tracker, healthy>>
    \/ \E ok \in BOOLEAN : switch_traffic(ok) /\ UNCHANGED <<serverVars, cart, localStorage, checkout, tracker, healthy>>
    \/ \E outcome \in {"absent", "passed", "failed"} : RunTests(outcome) /\ UNCHANGED <<serverVars, cart, localStorage, checkout, tracker, healthy>>
    \/ \E ok \in BOOLEAN : cleanup_old_environment(ok) /\ UNCHANGED <<serverVars, cart, localStorage, checkout, tracker, healthy>>

SpecDeploy == Init /\ [][NextDeploy]_vars

\* ------------------------------------------------------------- type sanity

TypeOK ==
    /\ phase \in {"starting", "listening"}
    /\ clickhouseConnected \in BOOLEAN
    /\ uuids \in 0..(MaxReqs * MaxEvents)
    /\ \A r \in ReqIds : req[r].pc \in {"unsent", "awaiting", "responded"}
    /\ \A r \in ReqIds : res[r].status \in {0, 200, 400, 500}

\* ------------------------------------------------ vocabulary of the claims

Sent(r) == req[r] # Unsent

Responded(r) == Sent(r) /\ req[r].pc = "responded"

\* The request's events array, <<>> when its body has none.
Items(r) ==
    IF Sent(r) /\ req[r].body.parse = "ok" /\ ~EventsInvalid(req[r].body.json)
    THEN req[r].body.json.events.items
    ELSE <<>>

\* The handler of r got as far as the loop.
Batched(r) == Sent(r) /\ "batches" \in DOMAIN req[r]

\* The loop of r was left by a throw.
Threw(r) == Batched(r) /\ res[r] = Failed("timestamp.includes is not a function")

\* No store call of r is still in flight and r has been answered.
Quiescent(r) ==
    /\ Responded(r)
    /\ Batched(r) => \A t \in TableSet : req[r].promises[t] # "pending"

\* The places in the store holding the row built from element i of r.
StoredAt(r, i) ==
    {<<t, k>> \in UNION {{t} \X (1..Len(store[t])) : t \in TableSet} :
        store[t][k].src = [req |-> r, idx |-> i]}

\* The places in r's arrays holding the row built from element i.
BatchedAt(r, i) ==
    IF ~Batched(r) THEN {}
    ELSE {<<t, k>> \in UNION {{t} \X (1..Len(req[r].batches[t])) : t \in TableSet} :
            req[r].batches[t][k].src = [req |-> r, idx |-> i]}

\* The id column of a row: metric_id in performance_metrics, event_id elsewhere.
RowId(row) == IF "metric_id" \in DOMAIN row THEN row.metric_id ELSE row.event_id

\* How many rows of the sequence carry the id.
CountId(rows, id) == Cardinality({k \in 1..Len(rows) : RowId(rows[k]) = id})

ClientIds == {e.event_id : e \in {x \in EventPool : "event_id" \in DOMAIN x}}

\* The kind of event each table is for.
KindOf(t) ==
    CASE t = "page_views" -> "page_view"
      [] t = "game_interactions" -> "game_interaction"
      [] t = "search_events" -> "search"
      [] t = "performance_metrics" -> "performance"

\* The event's event_type is present and is one of the four kinds.
HasKnownKind(event) ==
    "event_type" \in DOMAIN event /\ event.event_type \in {KindOf(t) : t \in TableSet}

StoreFailed(r) == Batched(r) /\ \E t \in TableSet : req[r].promises[t] = "rejected"

\* ----------------------------------------------------------------- claim C1

\* C1, as the specification states it: when a per-kind insert of a request
\* rejects, the request is not answered with a 5xx.
C1_NoStoreFailure5xx ==
    \A r \in ReqIds : StoreFailed(r) /\ Responded(r) => res[r].status \notin 500..599

\* C1 (amended): a request carrying a non-empty events array always gets a
\* structured result and never a 4xx, but a store failure does surface: when
\* any per-kind insert rejects the answer is the 500 "Failed to process
\* analytics events", and a 200 is sent only when no insert of the request
\* rejected or is still outstanding.
C1_StoreFailureIs500 ==
    \A r \in ReqIds :
        Responded(r) /\ Len(Items(r)) > 0 =>
            /\ res[r].status \in {200, 500}
            /\ "success" \in DOMAIN res[r]
            /\ res[r].success = (res[r].status = 200)
            /\ StoreFailed(r) => res[r] = Failed("insert failed")
            /\ res[r].status = 500 => StoreFailed(r) \/ Threw(r)
            /\ res[r].status = 200 /\ Batched(r) =>
                   \A t \in TableSet : req[r].promises[t] \in {"none", "fulfilled"}

\* C1 witness: an insert of a request rejected and the request was answered.
C1_Witness ==
    \E r \in ReqIds : StoreFailed(r) /\ Responded(r) /\ Len(Items(r)) > 0

\* ----------------------------------------------------------------- claim C2

\* C2: every event acknowledged with "Events queued for processing" is in
\* the store or in one of the handler's arrays (the service has no other
\* structure that could hold it).
C2_QueuedIsRetained ==
    \A r \in ReqIds :
        Responded(r) /\ res[r] = Queued(Items(r)) =>
            \A i \in 1..Len(Items(r)) : StoredAt(r, i) # {} \/ BatchedAt(r, i) # {}

\* ----------------------------------------------------------------- claim C3

\* C3, as the specification states it: no table ever holds two records with
\* the same event_id.
C3_OneRecordPerEventId ==
    \A t \in TableSet : \A id \in ClientIds : CountId(store[t], id) <= 1

RECURSIVE SumOver(_, _)
\* The sum of f over the finite set S of its domain.
SumOver(f, S) ==
    IF S = {} THEN 0
    ELSE LET x == CHOOSE y \in S : TRUE IN f[x] + SumOver(f, S \ {x})

\* C3 (amended): re-delivery is not idempotent.  A table holds one record
\* per submission whose insert succeeded: the number of stored records with
\* an event_id is the number of times that event_id occurs in the batches
\* inserted successfully, so an event submitted twice is stored twice.
C3_OneRecordPerSubmission ==
    \A t \in TableSet : \A id \in ClientIds :
        CountId(store[t], id) =
            SumOver([r \in ReqIds |->
                        IF Batched(r) /\ req[r].promises[t] = "fulfilled"
                        THEN CountId(req[r].batches[t], id) ELSE 0],
                    ReqIds)

\* C3 witness: the same event_id was submitted twice and is stored twice.
C3_Witness ==
    \E t \in TableSet : \E id \in ClientIds : CountId(store[t], id) = 2

\* ----------------------------------------------------------------- claim C4

\* The element of r's events array is of one of the four recognized kinds.
Recognized(r, i) == HasKnownKind(Items(r)[i])

\* The sizes of r's four arrays, added up.
BatchSizes(r) == SumOver([t \in TableSet |-> Len(req[r].batches[t])], TableSet)

SingleUnknownKind(r) == Len(Items(r)) = 1 /\ ~HasKnownKind(Items(r)[1])

EmptyArray(r) == Sent(r) /\ req[r].body = EventsBody(<<>>)

\* C6, as the specification states it: an empty events array is answered 200.
C6_EmptyArrayIs200 ==
    \A r \in ReqIds : Responded(r) /\ EmptyArray(r) => res[r].status = 200

\* C6 (amended): an empty events array is treated as an error.  It is
\* answered with status 400, success false and the error "Events array is
\* required", whether or not the store is connected, and nothing is counted
\* or stored.
C6_EmptyArrayIs400 ==
    \A r \in ReqIds :
        Responded(r) /\ EmptyArray(r) =>
            /\ res[r] = EventsRequired
            /\ "processed" \notin DOMAIN res[r]
            /\ ~Batched(r)

\* C6 witness: an empty events array was answered, by a connected service.
C6_Witness ==
    \E r \in ReqIds : Responded(r) /\ EmptyArray(r) /\ clickhouseConnected

\* ----------------------------------------------------------------- claim C7

\* Element i of r's events array has a timestamp that is not a string.
BadTimestamp(r, i) ==
    "timestamp" \in DOMAIN Items(r)[i] /\ Items(r)[i].timestamp.type # "string"

\* The store rejected the batch that element i of r was put in.
InRejectedBatch(r, i) ==
    \E p \in BatchedAt(r, i) : req[r].promises[p[1]] = "rejected"

C8_RetriedUntilPersisted ==
    \A r \in ReqIds :
        Quiescent(r) /\ Batched(r) =>
            \A t \in TableSet :
                req[r].calls[t] > 0 /\ req[r].failures[t] <= 3 =>
                    \A k \in 1..Len(req[r].batches[t]) :
                        Cardinality(StoredAt(r, req[r].batches[t][k].src.idx)) = 1

\* C8 (amended): the write is attempted once and never retried.  insertData
\* makes exactly one store call per non-empty batch; if that call fails the
\* batch is never persisted and the request is answered 500; if it succeeds
\* the batch is persisted exactly once.  No batch is ever stored twice.
C8_SingleAttempt ==
    \A r \in ReqIds :
        Batched(r) =>
            \A t \in TableSet :
                /\ req[r].calls[t] = (IF req[r].promises[t] = "none" THEN 0 ELSE 1)
                /\ req[r].failures[t] <= req[r].calls[t]
                /\ req[r].failures[t] = 1 <=> req[r].promises[t] = "rejected"
                /\ req[r].promises[t] = "rejected" => res[r] = Failed("insert failed")
                /\ \A k \in 1..Len(req[r].batches[t]) :
                       Cardinality(StoredAt(r, req[r].batches[t][k].src.idx)) =
                           (IF req[r].promises[t] = "fulfilled" THEN 1 ELSE 0)

\* C8 witness: a store call failed, its request has come to rest and the
\* batch is not in the store.
C8_Witness ==
    \E r \in ReqIds : \E t \in TableSet :
        /\ Quiescent(r) /\ Batched(r)
        /\ req[r].failures[t] = 1
        /\ \A k \in 1..Len(store[t]) : store[t][k].src.req # r

\* ----------------------------------------------------------------- claim C9

\* C9, as the specification states it: in an answered request the events
\* of a kind whose insert succeeded are persisted and reported as accepted,
\* whatever became of the inserts of the other kinds.
C9_KindsIsolated ==
    \A r \in ReqIds :
        Responded(r) /\ Batched(r) =>
            \A t \in TableSet :
                req[r].promises[t] = "fulfilled" =>
                    /\ \A k \in 1..Len(req[r].batches[t]) :
                           StoredAt(r, req[r].batches[t][k].src.idx) # {}
                    /\ res[r].status = 200
                    /\ res[r].processed[t] = Len(req[r].batches[t])

\* C9 (amended): a failing or slow sink for one kind does not stop another
\* kind from being persisted, but it does stop it from being reported.  The
\* inserts of all non-empty batches are started together, and the events of
\* every kind whose insert succeeds are persisted; they are reported as
\* accepted only when every insert of the request has succeeded.  If another
\* kind's insert fails the request is answered 500, and as long as another
\* kind's insert has neither failed nor completed the request is not
\* answered at all.
C9_PersistedNotReported ==
    \A r \in ReqIds :
        Batched(r) =>
            /\ ~Threw(r) =>
                   \A t \in TableSet : Len(req[r].batches[t]) > 0 => req[r].promises[t] # "none"
            /\ \A t \in TableSet :
                   req[r].promises[t] = "fulfilled" =>
                       \A k \in 1..Len(req[r].batches[t]) :
                           StoredAt(r, req[r].batches[t][k].src.idx) # {}
            /\ StoreFailed(r) => res[r].status = 500
            /\ res[r].status = 200 =>
                   \A t \in TableSet :
                       /\ req[r].promises[t] \in {"none", "fulfilled"}
                       /\ res[r].processed[t] = Len(req[r].batches[t])
            /\ ~StoreFailed(r) /\ (\E t \in TableSet : req[r].promises[t] = "pending") =>
                   res[r] = NoResponse

\* C9 witness: a request carried two kinds; the insert of one succeeded and
\* its rows are stored, the insert of the other failed, and the answer is 500.
C9_Witness ==
    \E r \in ReqIds : \E t1, t2 \in TableSet :
        /\ Batched(r)
        /\ req[r].promises[t1] = "fulfilled"
        /\ req[r].promises[t2] = "rejected"
        /\ \E k \in 1..Len(store[t1]) : store[t1][k].src.req = r
        /\ res[r].status = 500

\* ---------------------------------------------------------------- claim C10

\* The event passes the specification's validation: its kind is one of the
\* four, and a game_interaction names its game.
Valid(event) ==
    /\ HasKnownKind(event)
    /\ event.event_type = "game_interaction" => "game_id" \in DOMAIN event

\* The batches insertData was called with: <<request, table>>.
InsertDataCalls ==
    {c \in ReqIds \X TableSet : Batched(c[1]) /\ req[c[1]].promises[c[2]] # "none"}

\* C10, as the specification states it: every row of a batch passed to
\* insertData was built from an event that passes validation.
C10_OnlyValidReachSink ==
    \A c \in InsertDataCalls :
        \A k \in 1..Len(req[c[1]].batches[c[2]]) :
            Valid(Items(c[1])[req[c[1]].batches[c[2]][k].src.idx])

\* C10 (amended): no event of absent or unrecognized kind is ever in a batch
\* passed to insertData, and every row of such a batch was built from an
\* event of the kind of the batch's table.  Kind-specific fields are not
\* checked: a game_interaction without a game_id is passed to insertData,
\* in a row that has no game_id.
C10_OnlyKnownKindsReachSink ==
    /\ \A c \in InsertDataCalls :
           \A k \in 1..Len(req[c[1]].batches[c[2]]) :
               LET event == Items(c[1])[req[c[1]].batches[c[2]][k].src.idx]
               IN HasKnownKind(event) /\ event.event_type = KindOf(c[2])
    /\ \A r \in ReqIds :
           Batched(r) /\ ~Threw(r) =>
               \A i \in 1..Len(Items(r)) :
                   HasKnownKind(Items(r)[i])
                       /\ Items(r)[i].event_type = "game_interaction"
                       /\ "game_id" \notin DOMAIN Items(r)[i]
                   => /\ <<r, "game_interactions">> \in InsertDataCalls
                      /\ \E p \in BatchedAt(r, i) :
                             /\ p[1] = "game_interactions"
                             /\ "game_id" \notin DOMAIN req[r].batches[p[1]][p[2]]

\* C10 witness: insertData was called with a game_interaction that has no
\* game_id, in a request that also carried an event of unknown kind.
C10_Witness ==
    \E r \in ReqIds :
        /\ <<r, "game_interactions">> \in InsertDataCalls
        /\ Items(r) = <<bogus, giNoGame>>
        /\ Len(req[r].batches["game_interactions"]) = 1

\* ---------------------------------------------------------------- claim C11

\* The events of the request that are of the table's kind.
OfKind(r, t) ==
    {i \in 1..Len(Items(r)) :
        HasKnownKind(Items(r)[i]) /\ Items(r)[i].event_type = KindOf(t)}

\* C11, as the specification states it: no array handed to the store's
\* insert is longer than the configured batchSize, neither a slice of
\* batchInsert (the batchSize of the call) nor a per-kind array of the POST
\* handler (the default of 1000).
C11_BatchesWithinBatchSize ==
    /\ \A k \in 1..Len(bi.handed) : Len(bi.handed[k]) <= bi.batchSize
    /\ \A c \in InsertDataCalls : Len(req[c[1]].batches[c[2]]) <= DefaultBatchSize

\* C11 (amended): when batchSize is 1 or more, the k-th array batchInsert
\* hands to the store is the k-th run of batchSize rows of dataArray (the
\* last one shorter), so it holds between 1 and batchSize rows.  The POST
\* handler does not split: the array it passes to insertData for a kind
\* holds a row for every event of that kind in the request, however many.
C11_SlicesWithinBatchSize ==
    /\ bi.batchSize >= 1 =>
           \A k \in 1..Len(bi.handed) :
               LET from == (k - 1) * bi.batchSize + 1
                   to == IF k * bi.batchSize < Len(bi.dataArray)
                         THEN k * bi.batchSize ELSE Len(bi.dataArray)
               IN /\ bi.handed[k] = SubSeq(bi.dataArray, from, to)
                  /\ Len(bi.handed[k]) \in 1..bi.batchSize
    /\ \A c \in InsertDataCalls :
           ~Threw(c[1]) =>
               Len(req[c[1]].batches[c[2]]) = Cardinality(OfKind(c[1], c[2]))

\* C11 witness: batchInsert with the default batchSize has handed an array
\* of 1001 rows to the store in a slice of 1000 and a slice of 1, and the
\* handler has passed the 1001 search events of one request to insertData
\* in one array.
C11_Witness ==
    /\ bi.batchSize = DefaultBatchSize
    /\ Len(bi.dataArray) = DefaultBatchSize + 1
    /\ Len(bi.handed) = 2
    /\ Len(bi.handed[1]) = DefaultBatchSize
    /\ Len(bi.handed[2]) = 1
    /\ \E c \in InsertDataCalls : Len(req[c[1]].batches[c[2]]) = DefaultBatchSize + 1

\* ---------------------------------------------------------------- claim C12

\* The dashboard request has been answered.
Dashboard(q) ==
    get[q] # Unsent /\ get[q].route = "/api/analytics/dashboard" /\ get[q].pc = "responded"

\* The request's timeRange is an interval.
WellFormed(q) == TimeRangeOf(get[q].query) \in {"1 HOUR", "24 HOUR"}

AllZero ==
    [total_page_views |-> 0, total_sessions |-> 0, total_users |-> 0,
     avg_session_duration |-> 0, bounce_rate |-> 0]

C13_MalformedRangeIs400 ==
    \A q \in GetIds :
        Dashboard(q) /\ ~WellFormed(q) =>
            get[q].res.status = 400 /\ "reason" \in DOMAIN get[q].res

\* ---------------------------------------------------------------- claim C14

\* C14: the page-view count of a dashboard view is the number of page views
\* stored with a timestamp inside the requested range, however they are
\* spread over the minutes of the range.
C14_PageViewCountIsN ==
    \A q \in GetIds :
        Dashboard(q) /\ get[q].res.status = 200 =>
            get[q].res.summary.total_page_views = get[q].found

\* ---------------------------------------------------------------- claim C15

\* The service took the request's events on: the handler built its arrays
\* for the store and no error response has been sent.
TakenOn(r) ==
    /\ Batched(r)
    /\ res[r].status \in {0, 200}

\* C15: when the process has exited after a shutdown signal, every event of
\* recognized kind of every request that the service had taken on before the
\* signal is in the store.
C15_DrainedBeforeExit ==
    proc.pc = "exited" =>
        \A r \in proc.before :
            TakenOn(r) =>
                \A i \in 1..Len(Items(r)) : Recognized(r, i) => StoredAt(r, i) # {}

\* ---------------------------------------------------------------- claim C16

\* The health request has been answered.
Health(q) == get[q] # Unsent /\ get[q].route = "/health" /\ get[q].pc = "responded"

\* C16: whether the store is connected, disconnected, or fails the metrics
\* query, GET /health answers 200 and its clickhouse field is 'connected'
\* exactly when the connection flag is true.
C16_HealthAlways200 ==
    \A q \in GetIds :
        Health(q) =>
            /\ get[q].res.status = 200
            /\ get[q].res.clickhouse \in {"connected", "disconnected"}
            /\ get[q].res.clickhouse = "connected" <=> clickhouseConnected

\* C16 witness: /health has answered after its metrics query failed.
C16_Witness ==
    \E q \in GetIds :
        /\ Health(q)
        /\ clickhouseConnected
        /\ "clickhouse_status" \in DOMAIN get[q].res
        /\ get[q].res.status = 200

\* ---------------------------------------------------------------- claim C17

\* The rows of order_items that belong to the order.
ItemsOf(order_id) ==
    SelectSeq(db.order_items, LAMBDA row : row.order_id = order_id)

\* C17: order creation is atomic.  While a POST /api/orders is under way
\* the committed rows are those found at its arrival; when it has been
\* answered 201 they are those rows, the order's row and one order_items
\* row for each of its items, in order; when it has been answered with an
\* error (a missing field, no connection, an invalid item, a failed
\* statement) they are again those found at its arrival.  So no order is
\* ever committed without all of its items and no item without its order.
C17_OrderCreationAtomic ==
    /\ tx.pc \notin {"idle", "responded"} =>
           db.orders = tx.snapshot.orders /\ db.order_items = tx.snapshot.order_items
    /\ tx.pc = "responded" /\ tx.res.status # 201 =>
           /\ tx.res.status \in {400, 500}
           /\ db.orders = tx.snapshot.orders /\ db.order_items = tx.snapshot.order_items
    /\ tx.pc = "responded" /\ tx.res.status = 201 =>
           /\ Len(db.orders) = Len(tx.snapshot.orders) + 1
           /\ SubSeq(db.orders, 1, Len(tx.snapshot.orders)) = tx.snapshot.orders
           /\ db.orders[Len(db.orders)].order_id = tx.res.order_id
           /\ Len(ItemsOf(tx.res.order_id)) = Len(tx.body.items.items)
           /\ \A k \in 1..Len(tx.body.items.items) :
                  ItemsOf(tx.res.order_id)[k].game_id = tx.body.items.items[k].game_id
    /\ \A k \in 1..Len(db.orders) : Len(ItemsOf(db.orders[k].order_id)) >= 1
    /\ \A k \in 1..Len(db.order_items) :
           \E j \in 1..Len(db.orders) : db.orders[j].order_id = db.order_items[k].order_id

\* C17 witness: the order and its first item had been inserted when the
\* insert of the second item failed; the request was answered 500 and the
\* database, which held an order before, holds what it held.
C17_Witness ==
    /\ tx.pc = "responded"
    /\ tx.res.status = 500
    /\ tx.failedAt = "insert_item"
    /\ tx.i = 2
    /\ Len(tx.snapshot.orders) = 1
    /\ db.orders = tx.snapshot.orders

\* ---------------------------------------------------------------- claim C18

\* C18: whatever create, status-update and cancel requests are made, no
\* order whose status is shipped or delivered changes to cancelled.
C18_NoCancelAfterShipping ==
    [][\A i \in 1..Len(orders) : \A j \in 1..Len(orders') :
           orders[i].id = orders'[j].id /\ orders[i].status \in {"shipped", "delivered"}
               => orders'[j].status # "cancelled"]_vars

\* ---------------------------------------------------------------- claim C19

\* C19: in every state of the order service, the seeded orders included,
\* every order's status is one of pending, confirmed, shipped, delivered,
\* cancelled.
C19_StatusIsLifecycle ==
    \A i \in 1..Len(orders) :
        orders[i].status \in {"pending", "confirmed", "shipped", "delivered", "cancelled"}

\* ---------------------------------------------------------------- claim C20

\* C20: every event the frontend tracker sends, one JSON object {eventType,
\* userId, gameId, sessionId, metadata}, is answered with a 2xx by the
\* service's POST /api/analytics/events handler.
C20_TrackerEventAccepted ==
    \A r \in ReqIds :
        Responded(r) /\ req[r].body = TrackerEvent => res[r].status \in 200..299

\* ---------------------------------------------------------------- claim C24

\* C24: the clickhouseConnected flag is written by initializeClickHouse
\* during startup only: no step of a request handler and no success or
\* failure of the store changes it once the server listens.  So a
\* dashboard request is answered 503 exactly when the connection test of
\* the startup failed, and a 503 is never the answer after a startup that
\* succeeded, whatever the store did since.
C24_FlagWrittenAtStartupOnly ==
    /\ [][clickhouseConnected' # clickhouseConnected =>
              phase = "starting" /\ phase' = "listening"]_vars
    /\ [](\A q \in GetIds :
              get[q] # Unsent /\ get[q].pc = "responded" =>
                  /\ get[q].res.status = 503 =>
                         ~clickhouseConnected /\ get[q].route = "/api/analytics/dashboard"
                  /\ get[q].route = "/api/analytics/dashboard" /\ ~clickhouseConnected =>
                         get[q].res = NotAvailable)

\* C24 witness: after a startup that succeeded, an insert of a POST and the
\* queries of a dashboard request have both failed, and the flag is still
\* true.
C24_Witness ==
    /\ phase = "listening"
    /\ clickhouseConnected
    /\ StoreFailed(1)
    /\ res[1].status = 500
    /\ \E q \in GetIds :
           /\ get[q] # Unsent /\ get[q].pc = "responded"
           /\ get[q].route = "/api/analytics/dashboard"
           /\ get[q].res = DashboardFailed

\* ---------------------------------------------------------------- claim C25

\* The success response of the connected path has been sent for r.
SuccessSent(r) == Batched(r) /\ res[r].status = 200

\* C25: with the store connected, the success response of a POST is sent
\* only when every non-empty per-kind insert of the request has succeeded,
\* its rows being in the store by then; when an insert was rejected the
\* response is a 500 and never a success; and a response, once sent, is
\* the only one: it is never replaced.
C25_SuccessAfterAllInserts ==
    /\ [](\A r \in ReqIds :
              /\ SuccessSent(r) =>
                     \A t \in TableSet :
                         Len(req[r].batches[t]) > 0 =>
                             /\ req[r].promises[t] = "fulfilled"
                             /\ \A k \in 1..Len(req[r].batches[t]) :
                                    \E j \in 1..Len(store[t]) :
                                        store[t][j] = req[r].batches[t][k]
              /\ StoreFailed(r) => res[r].status \in {0, 500}
              /\ Responded(r) <=> res[r] # NoResponse)
    /\ [][\A r \in ReqIds : res[r] # NoResponse => res'[r] = res[r]]_vars

\* C25 witness: a request with events of two kinds was answered 500 when
\* the first insert was rejected; the other insert has succeeded since and
\* the response is still the 500.
C25_Witness ==
    \E r \in ReqIds :
        /\ StoreFailed(r)
        /\ res[r].status = 500
        /\ \E t \in TableSet : req[r].promises[t] = "fulfilled" /\ Len(req[r].batches[t]) > 0

\* ---------------------------------------------------------------- claim C27

\* C27: batchInsert terminates for every array and every integer batchSize,
\* so it never makes more passes of its loop than the array has rows; and
\* when it has returned after inserts that all succeeded, the arrays it
\* handed over are consecutive slices whose concatenation is the input,
\* totalInserted is the length of the array and batches is
\* ceil(length / batchSize).
C27_TerminatesWithAllRows ==
    /\ bi.batchCount <= Len(bi.dataArray)
    /\ bi.pc \in {"insert", "delay"} => bi.i + bi.batchSize > bi.i
    /\ bi.pc = "returned" =>
           /\ bi.totalInserted = Len(bi.dataArray)
           /\ Len(bi.dataArray) > 0 =>
                  /\ bi.batchSize > 0
                  /\ bi.batchCount = (Len(bi.dataArray) + bi.batchSize - 1) \div bi.batchSize
                  /\ bi.batchCount = Len(bi.handed)

\* ---------------------------------------------------------------- claim C28

RECURSIVE SumOfTotalPrice(_, _)
\* The sum of total_price over the rows from k on.
SumOfTotalPrice(rows, k) ==
    IF k > Len(rows) THEN 0 ELSE rows[k].total_price + SumOfTotalPrice(rows, k + 1)

\* C28: for every order in the database, orders.subtotal is the sum of
\* total_price over the order's order_items rows, discounted items
\* included.
C28_SubtotalIsSumOfItems ==
    \A k \in 1..Len(db.orders) :
        db.orders[k].subtotal = SumOfTotalPrice(ItemsOf(db.orders[k].order_id), 1)

\* ---------------------------------------------------------------- claim C29

\* C29: no GET request to the in-memory order service changes the orders
\* store: a step that is answered by a GET route leaves the sequence of
\* orders and every order's fields as they were.
C29_GetLeavesOrdersAlone ==
    [][orderRes' # NoResponse /\ "route" \in DOMAIN orderRes' => orders' = orders]_vars

\* ------------------------------------------------------------------ C21
\* C21: whenever processCheckout tells the user that the checkout failed (the
\* alert that ends "Your cart items have been preserved"), that step leaves
\* the cart in memory and in localStorage as they were; and a step of
\* processCheckout that changes the cart is one that reports success only,
\* whether or not window.lugxAnalytics is present.
ReportsFailure ==
    /\ Len(checkout'.alerts) > Len(checkout.alerts)
    /\ checkout'.alerts[Len(checkout'.alerts)] = "failed"

C21_FailureKeepsCart ==
    [][/\ ReportsFailure => cart' = cart /\ localStorage' = localStorage
       /\ checkout.pc # "idle" /\ checkout'.pc = "idle" /\ cart' # cart
             => checkout'.alerts = Append(checkout.alerts, "success")]_vars

\* ------------------------------------------------------------------ C22
\* C22: a Service selector is changed only by switch_traffic, to the target
\* environment, when the target's four deployments are ready and the run has
\* passed its four waits and its health check; and a run that has exited
\* without passing all of them leaves every selector, and the deployments of
\* the environment that was active, as they were when the run started.
AllChecks == {ServiceNames[i] : i \in DOMAIN ServiceNames} \cup {"health"}

SelectorChanges == cluster'.selector # cluster.selector

C22_SwitchOnlyAfterReadyAndHealthy ==
    /\ [][SelectorChanges =>
            /\ script.passed = AllChecks
            /\ \A i \in DOMAIN ServiceNames :
                  /\ cluster.deployment[script.TARGET_ENV][i] = "ready"
                  /\ cluster'.selector[i] \in {cluster.selector[i], script.TARGET_ENV}]_vars
    /\ [](script.pc = "exited" /\ script.passed # AllChecks =>
            /\ script.status # 0
            /\ cluster.selector = script.before.selector
            /\ \A e \in Environments \ {script.TARGET_ENV} :
                  cluster.deployment[e] = script.before.deployment[e])

\* The second run's health check failed: blue stays selected and ready.
C22_Witness ==
    /\ script.pc = "exited" /\ script.status = 1 /\ script.runs = 2
    /\ script.passed = AllChecks \ {"health"}
    /\ script.CURRENT_ENV = "blue" /\ script.TARGET_ENV = "green"
    /\ \A i \in DOMAIN ServiceNames :
          /\ cluster.selector[i] = "blue"
          /\ cluster.deployment["blue"][i] = "ready"
          /\ cluster.deployment["green"][i] = "ready"

\* ------------------------------------------------------------------ C23
\* C23: after any sequence of addToCart, addGameToCart, increaseQuantity,
\* decreaseQuantity and removeFromCart from the empty cart, every entry of
\* the cart has a quantity of at least 1 and no two entries have the same id.
C23_QuantitiesPositiveIdsUnique ==
    /\ \A i \in DOMAIN cart : cart[i].quantity >= 1
    /\ \A i, j \in DOMAIN cart : cart[i].id = cart[j].id => i = j

\* FIFA 24 was added twice and then Call of Duty once.
C23_Witness ==
    /\ Len(cart) = 2
    /\ cart[1].id = 2 /\ cart[1].quantity = 2
    /\ cart[2].id = 1 /\ cart[2].quantity = 1
    /\ localStorage = [has |-> TRUE, lugx_cart |-> JSON_stringify(cart)]

\* ------------------------------------------------------------------ C26
\* C26 as stated: once the page's tracker exists and the service answers its
\* health checks, serviceAvailable eventually becomes true (also after the
\* first health check failed).
C26_RecoversWheneverHealthy ==
    (tracker.loaded /\ healthy) ~> tracker.serviceAvailable

RecheckPending == tracker.timers > 0 \/ tracker.checks > 0

\* Nothing is in flight and the flag is cleared: no send is made (sendEvent
\* returns at once), so nothing schedules another health check.
Disabled ==
    /\ tracker.loaded /\ tracker.healthCheckCompleted /\ ~tracker.serviceAvailable
    /\ tracker.timers = 0 /\ tracker.checks = 0 /\ tracker.sends = 0

\* C26: a send whose settling clears serviceAvailable sets one timer for a
\* health check; while a health check is scheduled or under way and the
\* service answers health checks, serviceAvailable eventually becomes true;
\* but once a health check (the first one, or a re-check) has failed and
\* nothing else is in flight, the tracker stays unavailable whatever the
\* service does.
C26_RecoversWhileRecheckPending ==
    /\ [][tracker'.sends < tracker.sends /\ tracker.serviceAvailable
              /\ ~tracker'.serviceAvailable
            => tracker'.timers = tracker.timers + 1]_vars
    /\ [][Disabled => Disabled']_vars
    /\ (tracker.loaded /\ healthy /\ RecheckPending) ~> tracker.serviceAvailable

\* A send failed, its re-check is scheduled and the service is healthy again.
C26_Witness ==
    /\ tracker.loaded /\ healthy
    /\ ~tracker.serviceAvailable
    /\ tracker.timers > 0 /\ tracker.sent > 0

====
